---- MODULE Spec2Model ----
(***************************************************************************)
(* KanbanFlow: the task store of the REST server (MemStorage.tasksMap),    *)
(* the board snapshot each browser client holds (useQuery boardData), and  *)
(* the client handlers that create, delete and drag-and-drop tasks.        *)
(*                                                                         *)
(* Task.order is a JavaScript number.  An order o is represented by the    *)
(* integer o * Scale, Scale a power of two.  Every value of the model is a *)
(* dyadic rational far inside the 53-bit mantissa of a double, so `/ 2`,   *)
(* `+ 1` and the midpoint are exact in the program for these values; a     *)
(* handler whose result would leave the represented range is not taken.    *)
(***************************************************************************)
EXTENDS Integers, Sequences, FiniteSets

\* ---- bounds of the model ------------------------------------------------
NumClients == 2
NumColumns == 2
MaxTasks == 3
MaxOps == 5
MaxCollabOps == 4
HalvingDepth == 2
MaxOrder == 3
MaxFsOps == 3
MaxFsCollabOps == 2
MaxOffOps == 4
NumEndpoints == 2
MaxSubscriptions == 3
MaxPushOps == 4
MaxBoards == 2
MaxPlacedTasks == 2
MaxPlaceOps == 4
MaxSubOps == 4
NumUsers == 2
MaxStoreBoards == 2
MaxStoreColumns == 2
MaxStoreTasks == 2
MaxAuthzOps == 4
MaxTeamBoards == 2
MaxTeamTasks == 1
MaxAssignCalls == 3
MaxQueued == 3

Clients == 1..NumClients
Users == 1..NumUsers
Columns == 1..NumColumns
TaskIds == 1..MaxTasks
Scale == 2 ^ HalvingDepth

\* ---- the board the clients work on ---------------------------------------
boardId == 1
ownerId == 1
boardMembers == Clients

\* routes.ts isBoardMember: the owner, or a user with a membership record
isBoardMember(b, userId) ==
    b = boardId /\ (userId = ownerId \/ userId \in boardMembers)

VARIABLES
    tasksMap,    \* server: MemStorage.tasksMap, task id -> task
    taskId,      \* server: MemStorage.taskId, the next id
    boardData,   \* client -> the tasks of the board as last fetched
    stale,       \* client -> its board query is invalidated, refetch pending
    now,         \* number of requests served so far; stands for new Date()
    last,        \* the handler that ran last, with its inputs and its result
    moved,       \* client -> the task it moved since its last fetch (0: none)
    allFresh,    \* every request so far was computed on an up-to-date snapshot
    online       \* the clients that have the board open

restVars == <<tasksMap, taskId, boardData, stale, now, last, moved, allFresh,
             online>>

\* the board page on the document store (Firestore)
VARIABLES
    fsTasks,     \* the "tasks" collection: document id -> task
    tasksData,   \* client -> the ['tasks', id] query data: column -> tasks
    snapPending, \* client -> a snapshot of the tasks query is to be delivered
    fsWrite,     \* client -> the updateTask call in flight (NoWrite: none)
    fsFetch,     \* client -> the running queryFn of the tasks query
    fsTimer,     \* client -> the setTimeout armed by createTaskMutation.onSuccess
    fsNow,       \* number of creations and moves started on the board page
    fsLast,      \* the board-page step taken last, with its inputs
    fsDrop,      \* client -> its last drop: what it showed, how the write ended
    fsOnline     \* the clients that have the board page open

fsVars == <<fsTasks, tasksData, snapPending, fsWrite, fsFetch, fsTimer, fsNow,
            fsLast, fsDrop, fsOnline>>

\* the offline queue of a device and the server its replays reach
VARIABLES
    navigatorOnLine, \* navigator.onLine
    pending,         \* object store name -> the queued operations, by key
    pendingKey,      \* object store name -> the next autoIncrement key
    syncTags,        \* the sync registrations the browser has yet to fire
    srvLog,          \* the PUT requests the server has answered ok, in order
    netRequests,     \* number of network requests issued
    invalidations,   \* number of invalidateQueries calls
    offNow,          \* number of calls and events so far
    offLast          \* the call or event handled last, with its outcome

offVars == <<navigatorOnLine, pending, pendingKey, syncTags, srvLog, netRequests,
             invalidations, offNow, offLast>>

\* the push subscriptions on the server
VARIABLES
    pushSubscriptionsMap, \* subscription id -> [userId, endpoint]
    subscriptionId,       \* the next subscription id
    pushNow,              \* number of requests and notifications so far
    pushLast              \* the request or notification handled last

pushVars == <<pushSubscriptionsMap, subscriptionId, pushNow, pushLast>>

\* the boards, columns and tasks of the REST server
VARIABLES
    srvBoards,    \* boardsMap: the ids of the stored boards
    srvBoardId,   \* the next board id
    srvColumns,   \* columnsMap: column id -> [boardId]
    srvColumnId,  \* the next column id
    srvTasks,     \* tasksMap: task id -> [boardId, columnId]
    srvTaskId,    \* the next task id
    srvNow,       \* number of requests so far
    srvLast       \* the request handled last, with its status

placeVars == <<srvBoards, srvBoardId, srvColumns, srvColumnId, srvTasks, srvTaskId,
               srvNow, srvLast>>

\* one onUserBoardsChange subscription and the documents it listens to
VARIABLES
    fbBoards,       \* the board documents: board id -> createdBy
    fbMemberships,  \* the boards of the user's boardMembers documents
    ownedBoards,    \* the closure's ownedBoards, as ids
    memberBoards,   \* the closure's memberBoards, as ids
    memPending,     \* a membership snapshot waits to be delivered
    ownPending,     \* an owned-boards snapshot waits to be delivered
    handlers,       \* the membership handlers in flight: the boards each has yet to fetch
    unsubscribed,   \* the returned unsubscribe function has been called
    callbacks,      \* number of invocations of callback
    delivered,      \* the argument of the last invocation, as ids
    subNow          \* number of document writes so far

subVars == <<fbBoards, fbMemberships, ownedBoards, memberBoards, memPending,
             ownPending, handlers, unsubscribed, callbacks, delivered, subNow>>

\* the board component with a search, status or priority filter
VARIABLES
    filterTasks,  \* boardData.tasks of the component: task id -> task
    matches,      \* the tasks the filter lets through
    filterLast    \* the drop handled last: what was shown and what was computed

filterVars == <<filterTasks, matches, filterLast>>

\* a store behind the IStorage interface, called directly
VARIABLES
    stImpl,      \* the implementation: MemStorage, DatabaseStorage, MongoDBStorage
    stBoards,    \* board id -> ownerId
    stBoardId,   \* the next board id
    stMembers,   \* the board-member records, in the order they were added
    stColumns,   \* column id -> boardId
    stColumnId,  \* the next column id
    stTasks,     \* task id -> [boardId, columnId]
    stTaskId,    \* the next task id
    stAssignees, \* the task-assignee records
    stLast       \* the call made last, with its arguments and its result

storeVars == <<stImpl, stBoards, stBoardId, stMembers, stColumns, stColumnId,
               stTasks, stTaskId, stAssignees, stLast>>

\* the REST server with the boards of several users
VARIABLES
    azBoards,    \* board id -> ownerId
    azBoardId,   \* the next board id
    azColumns,   \* column id -> boardId
    azColumnId,  \* the next column id
    azTasks,     \* task id -> [boardId, columnId]
    azTaskId,    \* the next task id
    azNow,       \* number of requests served
    azLast       \* the request served last: route, user and status

authzVars == <<azBoards, azBoardId, azColumns, azColumnId, azTasks, azTaskId,
               azNow, azLast>>

\* the REST server with boards shared between users
VARIABLES
    tmBoards,    \* board id -> ownerId
    tmBoardId,   \* the next board id
    tmMembers,   \* the board-member records [boardId, userId]
    tmTasks,     \* task id -> boardId
    tmTaskId,    \* the next task id
    tmAssignees, \* the task-assignee records [taskId, userId]
    tmLast       \* the request served last: route, user and status

teamVars == <<tmBoards, tmBoardId, tmMembers, tmTasks, tmTaskId, tmAssignees,
              tmLast>>

\* the assignees of one task of the document store
VARIABLES
    assignedTo,    \* the assignedTo array of the task document
    calls,         \* the calls of assignTaskToUser / unassignTaskFromUser so far
    notifications  \* the users task-assigned notifications were created for

assignVars == <<assignedTo, calls, notifications>>

\* the useOffline hook of a mounted component
VARIABLES
    indexedDBSupported, \* typeof indexedDB !== 'undefined'
    onLine,             \* navigator.onLine of the browser
    isOffline,          \* the isOffline state of the hook
    isOfflineAtMount,   \* isOffline as the effect run at mount has captured it
    offlineMode,        \* the offlineMode state of the hook
    openRequest,        \* the indexedDB.open request of checkOfflineSupport
    queued,             \* number of operations saveOfflineOperation has stored
    saveResult          \* how the last saveOfflineOperation ended

modeVars == <<indexedDBSupported, onLine, isOffline, isOfflineAtMount,
              offlineMode, openRequest, queued, saveResult>>

vars == <<restVars, fsVars, offVars, pushVars, placeVars, subVars, filterVars, storeVars, authzVars, teamVars, assignVars, modeVars>>

\* the variables the handlers of the REST client leave alone
notRestVars == <<fsVars, offVars, pushVars, placeVars, subVars, filterVars, storeVars, authzVars, teamVars, assignVars, modeVars>>
\* the variables the board page on the document store leaves alone
notFsVars == <<restVars, offVars, pushVars, placeVars, subVars, filterVars, storeVars, authzVars, teamVars, assignVars, modeVars>>
notOffVars == <<restVars, fsVars, pushVars, placeVars, subVars, filterVars, storeVars, authzVars, teamVars, assignVars, modeVars>>
notPushVars == <<restVars, fsVars, offVars, placeVars, subVars, filterVars, storeVars, authzVars, teamVars, assignVars, modeVars>>
notPlaceVars == <<restVars, fsVars, offVars, pushVars, subVars, filterVars, storeVars, authzVars, teamVars, assignVars, modeVars>>
notSubVars == <<restVars, fsVars, offVars, pushVars, placeVars, filterVars, storeVars, authzVars, teamVars, assignVars, modeVars>>
notFilterVars == <<restVars, fsVars, offVars, pushVars, placeVars, subVars, storeVars, authzVars, teamVars, assignVars, modeVars>>
notStoreVars == <<restVars, fsVars, offVars, pushVars, placeVars, subVars, filterVars, authzVars, teamVars, assignVars, modeVars>>
notAuthzVars == <<restVars, fsVars, offVars, pushVars, placeVars, subVars, filterVars, storeVars, teamVars, assignVars, modeVars>>
notTeamVars == <<restVars, fsVars, offVars, pushVars, placeVars, subVars, filterVars, storeVars, authzVars, assignVars, modeVars>>
notAssignVars == <<restVars, fsVars, offVars, pushVars, placeVars, subVars, filterVars, storeVars, authzVars, teamVars, modeVars>>
notModeVars == <<restVars, fsVars, offVars, pushVars, placeVars, subVars, filterVars, storeVars, authzVars, teamVars, assignVars>>

\* the number of requests a behaviour of the model may issue
OpsBound == IF Cardinality(online) = 1 THEN MaxOps ELSE MaxCollabOps

\* ---- orders ---------------------------------------------------------------
Representable(n) == n \in 0..(MaxOrder * Scale)

\* exact n / 2 on represented values
Half(n) == n \div 2
HalfExact(n) == n % 2 = 0

PlusOne(n) == n + Scale

\* ---- maps -------------------------------------------------------------------
\* a function without the arguments in S
Restrict(f, S) == [x \in DOMAIN f \ S |-> f[x]]

\* ---- sorting ----------------------------------------------------------------
\* tasks.filter(t => t.columnId === col) over a task map
ColumnTasks(tasks, col) == {t \in DOMAIN tasks : tasks[t].columnId = col}

\* Array.prototype.sort((a, b) => a.order - b.order) is stable, and the array
\* comes from the Map in insertion order, which is the order of the ids
Precedes(tasks, t, u) ==
    \/ tasks[t].order < tasks[u].order
    \/ tasks[t].order = tasks[u].order /\ t <= u

RECURSIVE SortByOrder(_, _)
SortByOrder(tasks, S) ==
    IF S = {} THEN << >>
    ELSE LET m == CHOOSE t \in S : \A u \in S : Precedes(tasks, t, u)
         IN  <<m>> \o SortByOrder(tasks, S \ {m})

\* KanbanColumn: sortedTasks of one column
SortedColumn(tasks, col) == SortByOrder(tasks, ColumnTasks(tasks, col))

\* 0-based index of task t in a sequence of ids (-1 when absent)
IndexOf(seq, t) ==
    IF \E k \in 1..Len(seq) : seq[k] = t
    THEN (CHOOSE k \in 1..Len(seq) : seq[k] = t) - 1
    ELSE -1

\* the sequence without task t
Without(seq, t) == SelectSeq(seq, LAMBDA x : x # t)

\* ---- KanbanBoard.handleDragEnd: the new order ------------------------------
\* mutant: the middle drop placed after the next task instead of before it
NewOrder_MidAfterNext(tasks, destinationColumnId, index) ==
    LET destinationTasks == SortedColumn(tasks, destinationColumnId)
        n == Len(destinationTasks)
    IN  IF n = 0 THEN 0
        ELSE IF index = 0 THEN Half(tasks[destinationTasks[1]].order)
        ELSE IF index >= n THEN PlusOne(tasks[destinationTasks[n]].order)
        ELSE PlusOne(tasks[destinationTasks[index + 1]].order)

\* mutant: the front drop takes the first order without halving it
NewOrder_FrontNotHalved(tasks, destinationColumnId, index) ==
    LET destinationTasks == SortedColumn(tasks, destinationColumnId)
        n == Len(destinationTasks)
    IN  IF n = 0 THEN 0
        ELSE IF index = 0 THEN tasks[destinationTasks[1]].order
        ELSE IF index >= n THEN PlusOne(tasks[destinationTasks[n]].order)
        ELSE Half(tasks[destinationTasks[index]].order
                  + tasks[destinationTasks[index + 1]].order)

\* mutant: the end drop takes the last order without adding one
NewOrder_EndNotIncremented(tasks, destinationColumnId, index) ==
    LET destinationTasks == SortedColumn(tasks, destinationColumnId)
        n == Len(destinationTasks)
    IN  IF n = 0 THEN 0
        ELSE IF index = 0 THEN Half(tasks[destinationTasks[1]].order)
        ELSE IF index >= n THEN tasks[destinationTasks[n]].order
        ELSE Half(tasks[destinationTasks[index]].order
                  + tasks[destinationTasks[index + 1]].order)

\* mutant: the first task of an empty column gets order 1
NewOrder_EmptyIsOne(tasks, destinationColumnId, index) ==
    LET destinationTasks == SortedColumn(tasks, destinationColumnId)
        n == Len(destinationTasks)
    IN  IF n = 0 THEN Scale
        ELSE IF index = 0 THEN Half(tasks[destinationTasks[1]].order)
        ELSE IF index >= n THEN PlusOne(tasks[destinationTasks[n]].order)
        ELSE Half(tasks[destinationTasks[index]].order
                  + tasks[destinationTasks[index + 1]].order)

\* mutant: the front drop adds one to the first order
NewOrder_FrontIsFirstPlusOne(tasks, destinationColumnId, index) ==
    LET destinationTasks == SortedColumn(tasks, destinationColumnId)
        n == Len(destinationTasks)
    IN  IF n = 0 THEN 0
        ELSE IF index = 0 THEN PlusOne(tasks[destinationTasks[1]].order)
        ELSE IF index >= n THEN PlusOne(tasks[destinationTasks[n]].order)
        ELSE Half(tasks[destinationTasks[index]].order
                  + tasks[destinationTasks[index + 1]].order)

\* destinationTasks is the destination column of the client's snapshot, sorted;
\* index is destination.index
NewOrder(tasks, destinationColumnId, index) ==
    LET destinationTasks == SortedColumn(tasks, destinationColumnId)
        n == Len(destinationTasks)
    IN  IF n = 0 THEN 0
        ELSE IF index = 0 THEN Half(tasks[destinationTasks[1]].order)
        ELSE IF index >= n THEN PlusOne(tasks[destinationTasks[n]].order)
        ELSE Half(tasks[destinationTasks[index]].order
                  + tasks[destinationTasks[index + 1]].order)

\* the division in NewOrder is exact on the represented values
NewOrderExact(tasks, destinationColumnId, index) ==
    LET destinationTasks == SortedColumn(tasks, destinationColumnId)
        n == Len(destinationTasks)
    IN  IF n = 0 THEN TRUE
        ELSE IF index = 0 THEN HalfExact(tasks[destinationTasks[1]].order)
        ELSE IF index >= n THEN TRUE
        ELSE HalfExact(tasks[destinationTasks[index]].order
                       + tasks[destinationTasks[index + 1]].order)

\* ---- server: MemStorage ------------------------------------------------------
\* MemStorage.createTask: id = this.taskId++, the task stored under it
StorageCreateTask(tasks, id, task, time) ==
    [t \in DOMAIN tasks \cup {id} |->
        IF t = id
        THEN [columnId |-> task.columnId, boardId |-> task.boardId,
              order |-> task.order, createdBy |-> task.createdBy,
              createdAt |-> time, updatedAt |-> time]
        ELSE tasks[t]]

\* mutant: the stored task is replaced by the request body, not merged with it
StorageUpdateTask_NotMerged(tasks, id, columnId, order, time) ==
    [tasks EXCEPT ![id] = [columnId |-> columnId, boardId |-> @.boardId,
                           order |-> order, createdBy |-> 0,
                           createdAt |-> time, updatedAt |-> time]]

\* MemStorage.updateTask: { ...existingTask, ...task, updatedAt: new Date() }
StorageUpdateTask(tasks, id, columnId, order, time) ==
    [tasks EXCEPT ![id] = [@ EXCEPT !.columnId = columnId,
                                    !.order = order,
                                    !.updatedAt = time]]

\* MemStorage.deleteTask
StorageDeleteTask(tasks, id) == [t \in DOMAIN tasks \ {id} |-> tasks[t]]

\* ---- ghost record of the last handler -------------------------------------
NoLast == [op |-> "init", client |-> 0, task |-> 0, dst |-> 0, index |-> 0,
           order |-> 0, status |-> 0, fresh |-> TRUE]

InitBoard ==
    /\ tasksMap = << >>
    /\ taskId = 1
    /\ boardData = [c \in Clients |-> << >>]
    /\ stale = [c \in Clients |-> FALSE]
    /\ now = 0
    /\ last = NoLast
    /\ moved = [c \in Clients |-> 0]
    /\ allFresh = TRUE

\* ---- client: useQuery([`/api/boards/${boardId}`]) ---------------------------
\* GET /api/boards/:id answers storage.getTasks(boardId); the query refetches
\* after invalidateQueries and on window focus
Refetch(c) ==
    /\ isBoardMember(boardId, c)
    /\ boardData' = [boardData EXCEPT ![c] = tasksMap]
    /\ stale' = [stale EXCEPT ![c] = FALSE]
    /\ moved' = [moved EXCEPT ![c] = 0]
    /\ last' = [NoLast EXCEPT !.op = "refetch", !.client = c,
                              !.status = 200]
    /\ UNCHANGED <<tasksMap, taskId, now, allFresh, online>>
    /\ UNCHANGED notRestVars

\* ---- BoardProvider.createTask + POST /api/tasks ------------------------------
CreateTask(c, columnId) ==
    /\ now < OpsBound
    /\ taskId <= MaxTasks
    /\ LET columnTasks == ColumnTasks(boardData[c], columnId)
           order == IF columnTasks # {}
                    THEN PlusOne(CHOOSE m \in {boardData[c][t].order : t \in columnTasks} :
                                   \A t \in columnTasks : boardData[c][t].order <= m)
                    ELSE 0
           status == IF isBoardMember(boardId, c) THEN 201 ELSE 403
       IN  /\ Representable(order)
           /\ IF status = 201
              THEN /\ tasksMap' = StorageCreateTask(tasksMap, taskId,
                                     [columnId |-> columnId, boardId |-> boardId,
                                      order |-> order, createdBy |-> c], now + 1)
                   /\ taskId' = taskId + 1
                   /\ stale' = [stale EXCEPT ![c] = TRUE]
              ELSE UNCHANGED <<tasksMap, taskId, stale>>
           /\ last' = [NoLast EXCEPT !.op = "create", !.client = c,
                          !.task = taskId, !.dst = columnId, !.order = order,
                          !.status = status,
                          !.fresh = (boardData[c] = tasksMap)]
    /\ now' = now + 1
    /\ allFresh' = (allFresh /\ boardData[c] = tasksMap)
    /\ UNCHANGED <<boardData, moved, online>>
    /\ UNCHANGED notRestVars

\* ---- BoardProvider.deleteTask + DELETE /api/tasks/:id ------------------------
DeleteTask(c, t) ==
    /\ now < OpsBound
    /\ t \in DOMAIN boardData[c]
    /\ LET status == IF t \notin DOMAIN tasksMap THEN 404
                     ELSE IF ~isBoardMember(tasksMap[t].boardId, c) THEN 403
                     ELSE 200
       IN  /\ IF status = 200
              THEN /\ tasksMap' = StorageDeleteTask(tasksMap, t)
                   /\ stale' = [stale EXCEPT ![c] = TRUE]
              ELSE UNCHANGED <<tasksMap, stale>>
           /\ last' = [NoLast EXCEPT !.op = "delete", !.client = c, !.task = t,
                          !.status = status,
                          !.fresh = (boardData[c] = tasksMap)]
    /\ now' = now + 1
    /\ allFresh' = (allFresh /\ boardData[c] = tasksMap)
    /\ UNCHANGED <<taskId, boardData, moved, online>>
    /\ UNCHANGED notRestVars

\* ---- BoardProvider.moveTask + PUT /api/tasks/:id -----------------------------
\* the effect of the request on the server and of its answer on the client
\* mutant: a write computed on an outdated snapshot is refused
MoveStatus_RejectsStale(c, t) ==
    IF t \notin DOMAIN tasksMap THEN 404
    ELSE IF ~isBoardMember(tasksMap[t].boardId, c) THEN 403
    ELSE IF boardData[c] # tasksMap THEN 409
    ELSE 200

\* PUT /api/tasks/:id: 404 for an unknown task, 403 for a non-member
MoveStatus(c, t) ==
    IF t \notin DOMAIN tasksMap THEN 404
    ELSE IF ~isBoardMember(tasksMap[t].boardId, c) THEN 403
    ELSE 200

MoveTask(c, t, destinationColumnId, newOrder) ==
    IF MoveStatus(c, t) = 200
    THEN /\ tasksMap' = StorageUpdateTask(tasksMap, t, destinationColumnId,
                                          newOrder, now + 1)
         /\ stale' = [stale EXCEPT ![c] = TRUE]
         /\ moved' = [moved EXCEPT ![c] = t]
    ELSE UNCHANGED <<tasksMap, stale, moved>>

\* ---- KanbanBoard.handleDragEnd -----------------------------------------------
\* result.destination is null when the task is dropped outside every column
NoDestination == 0

\* react-beautiful-dnd reports the dragged task, its column and index in the
\* rendered (sorted) list, and the destination column with the index the task
\* takes among the destination's other tasks.
DropIndexes(tasks, t, destinationColumnId) ==
    0..Len(Without(SortedColumn(tasks, destinationColumnId), t))

HandleDragEnd(c, t, destinationColumnId, index) ==
    /\ now < OpsBound
    /\ t \in DOMAIN boardData[c]
    /\ index \in DropIndexes(boardData[c], t, destinationColumnId)
    /\ LET sourceColumnId == boardData[c][t].columnId
           sourceIndex == IndexOf(SortedColumn(boardData[c], sourceColumnId), t)
       IN  \* a drop back in the same place returns before anything is computed
           /\ ~(destinationColumnId = sourceColumnId /\ index = sourceIndex)
           /\ NewOrderExact(boardData[c], destinationColumnId, index)
           /\ LET newOrder == NewOrder(boardData[c], destinationColumnId, index)
              IN  /\ Representable(newOrder)
                  /\ MoveTask(c, t, destinationColumnId, newOrder)
                  /\ last' = [op |-> "move", client |-> c, task |-> t,
                              dst |-> destinationColumnId, index |-> index,
                              order |-> newOrder, status |-> MoveStatus(c, t),
                              fresh |-> (boardData[c] = tasksMap)]
    /\ now' = now + 1
    /\ allFresh' = (allFresh /\ boardData[c] = tasksMap)
    /\ UNCHANGED <<taskId, boardData, online>>
    /\ UNCHANGED notRestVars


\* ---- the board page on the document store ------------------------------------
NoWrite == [task |-> 0, columnId |-> 0, order |-> 0]
NoFetch == [next |-> 0, read |-> << >>]
NoTimer == [armed |-> FALSE, tasksData |-> << >>, task |-> 0, columnId |-> 0,
            order |-> 0]
NoFsLast == [op |-> "init", client |-> 0, task |-> 0, src |-> 0, dst |-> 0,
             index |-> 0, ok |-> TRUE, fresh |-> FALSE]
NoDrop == [state |-> "none", shown |-> << >>, fresh |-> FALSE]

\* the number of handlers a behaviour of the board page may start
FsOpsBound == IF Cardinality(fsOnline) = 1 THEN MaxFsOps ELSE MaxFsCollabOps

\* the store before the first task of the board; every client has the (empty)
\* board loaded and its listeners set up
FsInit ==
    /\ fsTasks = << >>
    /\ tasksData = [c \in Clients |-> [col \in Columns |-> << >>]]
    /\ snapPending = [c \in Clients |-> FALSE]
    /\ fsWrite = [c \in Clients |-> NoWrite]
    /\ fsFetch = [c \in Clients |-> NoFetch]
    /\ fsTimer = [c \in Clients |-> NoTimer]
    /\ fsNow = 0
    /\ fsLast = NoFsLast
    /\ fsDrop = [c \in Clients |-> NoDrop]

\* the board page is not in use
FsIdle == FsInit /\ fsOnline = {}

\* the documents of a query as task objects { id: doc.id, ...doc.data() };
\* a query without orderBy answers in the order of the document ids
TaskObjects(tasks, seq) ==
    [k \in 1..Len(seq) |->
        [id |-> seq[k], columnId |-> tasks[seq[k]].columnId,
         order |-> tasks[seq[k]].order]]

\* getColumnTasks: where("columnId", "==", columnId), sorted by order
getColumnTasks(tasks, columnId) == TaskObjects(tasks, SortedColumn(tasks, columnId))

\* the onBoardTasksChange callback of the board page: the tasks of the board
\* grouped by column, every known column present, each group sorted by order
TasksByColumn(tasks) == [col \in Columns |-> getColumnTasks(tasks, col)]

\* array.splice(index, 1) and array.splice(index, 0, x), index 0-based
SpliceOut(seq, index) ==
    [k \in 1..(Len(seq) - 1) |-> IF k <= index THEN seq[k] ELSE seq[k + 1]]
SpliceIn(seq, index, x) ==
    [k \in 1..(Len(seq) + 1) |->
        IF k <= index THEN seq[k] ELSE IF k = index + 1 THEN x ELSE seq[k - 1]]

\* tasks.map((task, idx) => ({ ...task, order: idx }))
Renumbered(seq) == [k \in 1..Len(seq) |-> [seq[k] EXCEPT !.order = k - 1]]

\* handleDragEnd of the board page: newTasksData
NewTasksData(data, sourceColumnId, sourceIndex, destColumnId, destIndex) ==
    LET movedTask == data[sourceColumnId][sourceIndex + 1]
        sourceTasks == SpliceOut(data[sourceColumnId], sourceIndex)
    IN  IF sourceColumnId = destColumnId
        THEN [data EXCEPT ![sourceColumnId] =
                 Renumbered(SpliceIn(sourceTasks, destIndex, movedTask))]
        ELSE [data EXCEPT
                 ![sourceColumnId] = Renumbered(sourceTasks),
                 ![destColumnId] = Renumbered(SpliceIn(data[destColumnId], destIndex,
                                      [movedTask EXCEPT !.columnId = destColumnId]))]

\* queryClient.invalidateQueries(['tasks', id]): a running fetch is cancelled
\* and the queryFn starts again with the first column
StartedFetch == [next |-> 1, read |-> << >>]

\* the ids a column of the query data shows, in the order shown
ShownIds(data, col) == [k \in 1..Len(data[col]) |-> data[col][k].id]

\* createTaskMutation: addDoc with order = tasksData[columnId].length || 0;
\* onSuccess arms the 500 ms timer
FsCreateTask(c, columnId, id) ==
    /\ fsNow < FsOpsBound
    /\ id \notin DOMAIN fsTasks
    /\ ~fsTimer[c].armed
    /\ LET order == Len(tasksData[c][columnId])
       IN  /\ fsTasks' = [t \in DOMAIN fsTasks \cup {id} |->
                            IF t = id THEN [columnId |-> columnId, order |-> order]
                            ELSE fsTasks[t]]
           /\ fsTimer' = [fsTimer EXCEPT ![c] =
                            [armed |-> TRUE, tasksData |-> tasksData[c],
                             task |-> id, columnId |-> columnId, order |-> order]]
           /\ fsLast' = [NoFsLast EXCEPT !.op = "create", !.client = c,
                            !.task = id, !.dst = columnId, !.index = order,
                            !.fresh = (tasksData[c] = TasksByColumn(fsTasks))]
    /\ snapPending' = [d \in Clients |-> d \in fsOnline]
    /\ fsDrop' = [d \in Clients |-> NoDrop]
    /\ fsNow' = fsNow + 1
    /\ UNCHANGED <<tasksData, fsWrite, fsFetch, fsOnline>>
    /\ UNCHANGED notFsVars

\* the timer of createTaskMutation.onSuccess: invalidateQueries, then the new
\* task appended to the query data the callback had captured
FsTimerFires(c) ==
    /\ fsTimer[c].armed
    /\ LET tm == fsTimer[c]
           newTask == [id |-> tm.task, columnId |-> tm.columnId, order |-> tm.order]
       IN  tasksData' = [tasksData EXCEPT ![c] =
                           [tm.tasksData EXCEPT ![tm.columnId] = Append(@, newTask)]]
    /\ fsFetch' = [fsFetch EXCEPT ![c] = StartedFetch]
    /\ fsTimer' = [fsTimer EXCEPT ![c] = NoTimer]
    /\ fsLast' = [NoFsLast EXCEPT !.op = "timer", !.client = c]
    /\ UNCHANGED <<fsTasks, snapPending, fsWrite, fsNow, fsDrop, fsOnline>>
    /\ UNCHANGED notFsVars

\* handleDragEnd without the check for a drop in the same position
FsHandleDragEnd_SamePositionMoves(c, sourceColumnId, sourceIndex, destColumnId, destIndex) ==
    /\ sourceIndex < Len(tasksData[c][sourceColumnId])
    /\ IF destColumnId = NoDestination
       THEN \* dropped outside a droppable area: return
            /\ fsLast' = [NoFsLast EXCEPT !.op = "dropped back", !.client = c]
            /\ UNCHANGED <<tasksData, fsWrite, fsDrop, fsNow>>
       ELSE /\ fsNow < FsOpsBound
            /\ fsWrite[c] = NoWrite
            /\ destIndex <= Len(tasksData[c][destColumnId])
                            - (IF sourceColumnId = destColumnId THEN 1 ELSE 0)
            /\ LET taskId_ == tasksData[c][sourceColumnId][sourceIndex + 1].id
                   newTasksData == NewTasksData(tasksData[c], sourceColumnId,
                                                sourceIndex, destColumnId, destIndex)
               IN  /\ tasksData' = [tasksData EXCEPT ![c] = newTasksData]
                   /\ fsWrite' = [fsWrite EXCEPT ![c] =
                                    [task |-> taskId_, columnId |-> destColumnId,
                                     order |-> destIndex]]
                   /\ fsLast' = [op |-> IF /\ sourceColumnId = destColumnId
                                             /\ sourceIndex = destIndex
                                          THEN "dropped back" ELSE "drag",
                                 client |-> c, task |-> taskId_,
                                 src |-> sourceColumnId, dst |-> destColumnId,
                                 index |-> destIndex, ok |-> TRUE, fresh |-> FALSE]
                   /\ fsDrop' = [fsDrop EXCEPT ![c] =
                                   [state |-> "pending",
                                    shown |-> [col \in Columns |->
                                                 ShownIds(newTasksData, col)],
                                    fresh |-> (tasksData[c] = TasksByColumn(fsTasks))]]
            /\ fsNow' = fsNow + 1
    /\ UNCHANGED <<fsTasks, snapPending, fsFetch, fsTimer, fsOnline>>
    /\ UNCHANGED notFsVars

\* handleDragEnd of the board page up to the remote call: the optimistic
\* arrangement is put into the query data and updateTask is called with
\* { columnId: destColumnId, order: destination.index }
FsHandleDragEnd(c, sourceColumnId, sourceIndex, destColumnId, destIndex) ==
    /\ sourceIndex < Len(tasksData[c][sourceColumnId])
    /\ IF \/ destColumnId = NoDestination
          \/ (sourceColumnId = destColumnId /\ sourceIndex = destIndex)
       THEN \* dropped outside a droppable area or in the same position: return
            /\ fsLast' = [NoFsLast EXCEPT !.op = "dropped back", !.client = c]
            /\ UNCHANGED <<tasksData, fsWrite, fsDrop, fsNow>>
       ELSE /\ fsNow < FsOpsBound
            /\ fsWrite[c] = NoWrite
            /\ destIndex <= Len(tasksData[c][destColumnId])
                            - (IF sourceColumnId = destColumnId THEN 1 ELSE 0)
            /\ LET taskId_ == tasksData[c][sourceColumnId][sourceIndex + 1].id
                   newTasksData == NewTasksData(tasksData[c], sourceColumnId,
                                                sourceIndex, destColumnId, destIndex)
               IN  /\ tasksData' = [tasksData EXCEPT ![c] = newTasksData]
                   /\ fsWrite' = [fsWrite EXCEPT ![c] =
                                    [task |-> taskId_, columnId |-> destColumnId,
                                     order |-> destIndex]]
                   /\ fsLast' = [op |-> "drag", client |-> c, task |-> taskId_,
                                 src |-> sourceColumnId, dst |-> destColumnId,
                                 index |-> destIndex, ok |-> TRUE, fresh |-> FALSE]
                   /\ fsDrop' = [fsDrop EXCEPT ![c] =
                                   [state |-> "pending",
                                    shown |-> [col \in Columns |->
                                                 ShownIds(newTasksData, col)],
                                    fresh |-> (tasksData[c] = TasksByColumn(fsTasks))]]
            /\ fsNow' = fsNow + 1
    /\ UNCHANGED <<fsTasks, snapPending, fsFetch, fsTimer, fsOnline>>
    /\ UNCHANGED notFsVars

\* updateTask answers, but the catch branch leaves the tasks query alone
FsWriteDone_FailureNotInvalidated(c, ok) ==
    /\ fsWrite[c] # NoWrite
    /\ LET w == fsWrite[c]
           done == ok /\ w.task \in DOMAIN fsTasks
       IN  /\ IF done
              THEN /\ fsTasks' = [fsTasks EXCEPT ![w.task] =
                                    [@ EXCEPT !.columnId = w.columnId,
                                              !.order = w.order]]
                   /\ snapPending' = [d \in Clients |-> d \in fsOnline]
              ELSE UNCHANGED <<fsTasks, snapPending>>
           /\ fsLast' = [NoFsLast EXCEPT !.op = "written", !.client = c,
                            !.task = w.task, !.dst = w.columnId,
                            !.index = w.order, !.ok = done]
           \* the drops of the other clients were arranged for the old store
           /\ fsDrop' = [d \in Clients |->
                           IF d = c
                           THEN [fsDrop[c] EXCEPT !.state =
                                    IF done THEN "written" ELSE "failed"]
                           ELSE IF done THEN NoDrop ELSE fsDrop[d]]
    /\ fsWrite' = [fsWrite EXCEPT ![c] = NoWrite]
    /\ fsFetch' = IF ok /\ fsWrite[c].task \in DOMAIN fsTasks
                THEN [fsFetch EXCEPT ![c] = StartedFetch] ELSE fsFetch
    /\ UNCHANGED <<tasksData, fsTimer, fsNow, fsOnline>>
    /\ UNCHANGED notFsVars

\* updateTask answers: the document is updated, or the call throws (the task
\* is gone, or the request failed); either way the tasks query is invalidated
FsWriteDone(c, ok) ==
    /\ fsWrite[c] # NoWrite
    /\ LET w == fsWrite[c]
           done == ok /\ w.task \in DOMAIN fsTasks
       IN  /\ IF done
              THEN /\ fsTasks' = [fsTasks EXCEPT ![w.task] =
                                    [@ EXCEPT !.columnId = w.columnId,
                                              !.order = w.order]]
                   /\ snapPending' = [d \in Clients |-> d \in fsOnline]
              ELSE UNCHANGED <<fsTasks, snapPending>>
           /\ fsLast' = [NoFsLast EXCEPT !.op = "written", !.client = c,
                            !.task = w.task, !.dst = w.columnId,
                            !.index = w.order, !.ok = done]
           \* the drops of the other clients were arranged for the old store
           /\ fsDrop' = [d \in Clients |->
                           IF d = c
                           THEN [fsDrop[c] EXCEPT !.state =
                                    IF done THEN "written" ELSE "failed"]
                           ELSE IF done THEN NoDrop ELSE fsDrop[d]]
    /\ fsWrite' = [fsWrite EXCEPT ![c] = NoWrite]
    /\ fsFetch' = [fsFetch EXCEPT ![c] = StartedFetch]
    /\ UNCHANGED <<tasksData, fsTimer, fsNow, fsOnline>>
    /\ UNCHANGED notFsVars

\* the queryFn of the tasks query reads one column after the other
FsFetchColumn(c) ==
    /\ fsFetch[c].next \in Columns
    /\ LET col == fsFetch[c].next
       IN  fsFetch' = [fsFetch EXCEPT ![c] =
              [next |-> col + 1,
               read |-> [k \in 1..col |->
                           IF k = col THEN getColumnTasks(fsTasks, col)
                           ELSE fsFetch[c].read[k]]]]
    /\ fsLast' = [NoFsLast EXCEPT !.op = "read", !.client = c]
    /\ UNCHANGED <<fsTasks, tasksData, snapPending, fsWrite, fsTimer, fsNow,
                   fsDrop, fsOnline>>
    /\ UNCHANGED notFsVars

\* the queryFn resolves: its result becomes the query data
FsFetchResolves(c) ==
    /\ fsFetch[c].next = NumColumns + 1
    /\ tasksData' = [tasksData EXCEPT ![c] = [col \in Columns |-> fsFetch[c].read[col]]]
    /\ fsFetch' = [fsFetch EXCEPT ![c] = NoFetch]
    /\ fsLast' = [NoFsLast EXCEPT !.op = "fetched", !.client = c]
    /\ UNCHANGED <<fsTasks, snapPending, fsWrite, fsTimer, fsNow, fsDrop,
                   fsOnline>>
    /\ UNCHANGED notFsVars

\* onBoardTasksChange delivers the current tasks of the board to the callback
FsSnapshot(c) ==
    /\ snapPending[c]
    /\ tasksData' = [tasksData EXCEPT ![c] = TasksByColumn(fsTasks)]
    /\ snapPending' = [snapPending EXCEPT ![c] = FALSE]
    /\ fsLast' = [NoFsLast EXCEPT !.op = "snapshot", !.client = c]
    /\ UNCHANGED <<fsTasks, fsWrite, fsFetch, fsTimer, fsNow, fsDrop, fsOnline>>
    /\ UNCHANGED notFsVars

FsNext ==
    \/ \E c \in fsOnline, col \in Columns, id \in TaskIds : FsCreateTask(c, col, id)
    \/ \E c \in fsOnline : FsTimerFires(c)
    \/ \E c \in fsOnline, sc \in Columns, si \in 0..MaxTasks,
          dc \in Columns \cup {NoDestination}, di \in 0..MaxTasks :
          FsHandleDragEnd(c, sc, si, dc, di)
    \/ \E c \in fsOnline, ok \in BOOLEAN : FsWriteDone(c, ok)
    \/ \E c \in fsOnline : FsFetchColumn(c)
    \/ \E c \in fsOnline : FsFetchResolves(c)
    \/ \E c \in fsOnline : FsSnapshot(c)


\* ---- the offline queue ---------------------------------------------------------
Stores == {"pendingTasks", "pendingBoards"}
StoreOf(tag) == IF tag = "sync-tasks" THEN "pendingTasks" ELSE "pendingBoards"
Answers == {"ok", "not ok", "throws"}

NoOffLast == [op |-> "init", online |-> TRUE, store |-> "", accepted |-> TRUE,
              threw |-> FALSE, answers |-> << >>]

OffInit ==
    /\ navigatorOnLine = TRUE
    /\ pending = [st \in Stores |-> << >>]
    /\ pendingKey = [st \in Stores |-> 1]
    /\ syncTags = {}
    /\ srvLog = << >>
    /\ netRequests = 0
    /\ invalidations = 0
    /\ offNow = 0
    /\ offLast = NoOffLast

\* the offline queue is not in use
OffIdle == OffInit

\* store.add(operation) on a store with keyPath 'id' and autoIncrement
StoreAdd(queue, key, operation) ==
    Append(queue, [id |-> key, url |-> operation.url, method |-> operation.method,
                   data |-> operation.data])

\* the operation moveTaskToColumn queues: { url, method: 'PUT', data }
MoveOperation(task, destinationColumnId, newOrder) ==
    [url |-> task, method |-> "PUT",
     data |-> [id |-> task, columnId |-> destinationColumnId, order |-> newOrder]]

\* a PUT the server has answered ok; store and key say where it had been
\* queued (store "" and key 0 for a request that was sent at once)
Logged(operation, store, key) ==
    [url |-> operation.url, columnId |-> operation.data.columnId,
     order |-> operation.data.order, store |-> store, key |-> key]

\* the window's online event: handleOnline registers both sync tags
OnlineEvent ==
    /\ offNow < MaxOffOps
    /\ ~navigatorOnLine
    /\ navigatorOnLine' = TRUE
    /\ syncTags' = syncTags \cup {"sync-tasks", "sync-boards"}
    /\ offLast' = [NoOffLast EXCEPT !.op = "online"]
    /\ offNow' = offNow + 1
    /\ UNCHANGED <<pending, pendingKey, srvLog, netRequests, invalidations>>
    /\ UNCHANGED notOffVars

\* the window's offline event
OfflineEvent ==
    /\ offNow < MaxOffOps
    /\ navigatorOnLine
    /\ navigatorOnLine' = FALSE
    /\ offLast' = [NoOffLast EXCEPT !.op = "offline", !.online = FALSE]
    /\ offNow' = offNow + 1
    /\ UNCHANGED <<pending, pendingKey, syncTags, srvLog, netRequests, invalidations>>
    /\ UNCHANGED notOffVars

\* moveTaskToColumn, but a request that fails while connected is queued
moveTaskToColumn_QueuesFailedRequest(task, destinationColumnId, newOrder, accepted) ==
    /\ offNow < MaxOffOps
    /\ LET operation == MoveOperation(task, destinationColumnId, newOrder)
           queue == ~navigatorOnLine \/ ~accepted
       IN  /\ pending' = IF queue
                         THEN [pending EXCEPT !["pendingTasks"] =
                                  StoreAdd(@, pendingKey["pendingTasks"], operation)]
                         ELSE pending
           /\ pendingKey' = IF queue
                            THEN [pendingKey EXCEPT !["pendingTasks"] = @ + 1]
                            ELSE pendingKey
           /\ syncTags' = IF queue THEN syncTags \cup {"sync-tasks"} ELSE syncTags
           /\ netRequests' = IF navigatorOnLine THEN netRequests + 1 ELSE netRequests
           /\ srvLog' = IF navigatorOnLine /\ accepted
                        THEN Append(srvLog, Logged(operation, "", 0)) ELSE srvLog
           /\ invalidations' = IF navigatorOnLine /\ accepted
                               THEN invalidations + 1 ELSE invalidations
           /\ offLast' = [NoOffLast EXCEPT !.op = "move", !.online = navigatorOnLine,
                            !.store = "pendingTasks", !.accepted = accepted,
                            !.threw = FALSE]
    /\ offNow' = offNow + 1
    /\ UNCHANGED navigatorOnLine
    /\ UNCHANGED notOffVars

\* moveTaskToColumn. Disconnected: saveOfflineTaskMove adds the operation to
\* pendingTasks and registers the sync tag, or rejects when the local store
\* does not accept it. Connected: the PUT is sent and the board query is
\* invalidated, or the error of the request is rethrown.
moveTaskToColumn(task, destinationColumnId, newOrder, accepted) ==
    /\ offNow < MaxOffOps
    /\ LET operation == MoveOperation(task, destinationColumnId, newOrder)
           queue == ~navigatorOnLine /\ accepted
       IN  /\ pending' = IF queue
                         THEN [pending EXCEPT !["pendingTasks"] =
                                  StoreAdd(@, pendingKey["pendingTasks"], operation)]
                         ELSE pending
           /\ pendingKey' = IF queue
                            THEN [pendingKey EXCEPT !["pendingTasks"] = @ + 1]
                            ELSE pendingKey
           /\ syncTags' = IF queue THEN syncTags \cup {"sync-tasks"} ELSE syncTags
           /\ netRequests' = IF navigatorOnLine THEN netRequests + 1 ELSE netRequests
           /\ srvLog' = IF navigatorOnLine /\ accepted
                        THEN Append(srvLog, Logged(operation, "", 0)) ELSE srvLog
           /\ invalidations' = IF navigatorOnLine /\ accepted
                               THEN invalidations + 1 ELSE invalidations
           /\ offLast' = [NoOffLast EXCEPT !.op = "move", !.online = navigatorOnLine,
                            !.store = "pendingTasks", !.accepted = accepted,
                            !.threw = ~accepted]
    /\ offNow' = offNow + 1
    /\ UNCHANGED navigatorOnLine
    /\ UNCHANGED notOffVars

\* saveBoardOperation of the useOffline hook: the operation is added to
\* pendingBoards, or the promise rejects
saveBoardOperation(board, accepted) ==
    /\ offNow < MaxOffOps
    /\ LET operation == [url |-> board, method |-> "PUT",
                         data |-> [id |-> board, columnId |-> 0, order |-> 0]]
       IN  /\ pending' = IF accepted
                         THEN [pending EXCEPT !["pendingBoards"] =
                                  StoreAdd(@, pendingKey["pendingBoards"], operation)]
                         ELSE pending
           /\ pendingKey' = IF accepted
                            THEN [pendingKey EXCEPT !["pendingBoards"] = @ + 1]
                            ELSE pendingKey
    /\ offLast' = [NoOffLast EXCEPT !.op = "save", !.online = navigatorOnLine,
                     !.store = "pendingBoards", !.accepted = accepted,
                     !.threw = ~accepted]
    /\ offNow' = offNow + 1
    /\ UNCHANGED <<navigatorOnLine, syncTags, srvLog, netRequests, invalidations>>
    /\ UNCHANGED notOffVars

\* openDB resolves with request.result: the IDBDatabase itself, which offers
\* these methods and no others
openDB == [methods |-> {"close", "createObjectStore", "deleteObjectStore",
                        "transaction"}]

\* the loop of syncTasks / syncBoards over the operations db.getAll returned:
\* every operation is sent; one answered ok is deleted, one that is answered
\* not ok or whose fetch throws stays, and the loop goes on
ReplayLoop(store, queue, answers) ==
    [left |-> SelectSeq(queue, LAMBDA o : answers[o.id] # "ok"),
     sent |-> Len(queue),
     done |-> LET oks == SelectSeq(queue, LAMBDA o : answers[o.id] = "ok")
              IN  [k \in 1..Len(oks) |-> Logged(oks[k], store, oks[k].id)]]

\* syncTasks / syncBoards: db.getAll is called on what openDB resolved with;
\* a call of a method the object does not have throws, and the outer catch
\* ends the run
syncStore(store, queue, answers) ==
    LET db == openDB
    IN  IF "getAll" \in db.methods /\ "delete" \in db.methods
        THEN ReplayLoop(store, queue, answers)
        ELSE [left |-> queue, sent |-> 0, done |-> << >>]

\* the service worker's sync event for a registered tag, fired while connected
SyncEvent(tag, answers) ==
    /\ tag \in syncTags
    /\ navigatorOnLine
    /\ LET st == StoreOf(tag)
           run == syncStore(st, pending[st], answers)
       IN  /\ pending' = [pending EXCEPT ![st] = run.left]
           /\ srvLog' = srvLog \o run.done
           /\ netRequests' = netRequests + run.sent
           /\ offLast' = [NoOffLast EXCEPT !.op = "sync", !.store = st,
                            !.answers = answers]
    /\ syncTags' = syncTags \ {tag}
    /\ UNCHANGED <<navigatorOnLine, pendingKey, invalidations, offNow>>
    /\ UNCHANGED notOffVars

OffNext ==
    \/ OnlineEvent
    \/ OfflineEvent
    \/ \E t \in TaskIds, col \in Columns, o \in 0..1, accepted \in BOOLEAN :
          moveTaskToColumn(t, col, o, accepted)
    \/ \E accepted \in BOOLEAN : saveBoardOperation(boardId, accepted)
    \/ \E tag \in {"sync-tasks", "sync-boards"} :
          \E answers \in [1..(pendingKey[StoreOf(tag)] - 1) -> Answers] :
              SyncEvent(tag, answers)


\* ---- push subscriptions --------------------------------------------------------
Endpoints == 1..NumEndpoints
\* what the push service answers to a delivery: accepted, 404 or 410, or
\* another error
Deliveries == {"ok", "gone", "error"}

NoPushLast == [op |-> "init", user |-> 0, outcome |-> << >>, sent |-> FALSE]

PushInit ==
    /\ pushSubscriptionsMap = << >>
    /\ subscriptionId = 1
    /\ pushNow = 0
    /\ pushLast = NoPushLast

\* no subscription is in use
PushIdle == PushInit

\* MemStorage.getUserPushSubscriptions, as the ids in insertion order
getUserPushSubscriptions(subs, userId) ==
    {id \in DOMAIN subs : subs[id].userId = userId}

\* DatabaseStorage.deletePushSubscription: every subscription with the
\* endpoint is deleted (the storage in use when DATABASE_URL is set)
deletePushSubscription_AllOfEndpoint(subs, endpoint) ==
    [id \in {i \in DOMAIN subs : subs[i].endpoint # endpoint} |-> subs[id]]

\* MemStorage.deletePushSubscription: the first subscription found with the
\* endpoint is deleted
deletePushSubscription(subs, endpoint) ==
    LET found == {id \in DOMAIN subs : subs[id].endpoint = endpoint}
    IN  IF found = {} THEN subs
        ELSE LET first == CHOOSE id \in found : \A other \in found : id <= other
             IN  [id \in DOMAIN subs \ {first} |-> subs[id]]

\* the catch branches of one sendNotificationToUser call, one after the other:
\* one deletePushSubscription(endpoint) per failed delivery with 404 or 410
RECURSIVE DeleteGone(_, _, _)
DeleteGone(subs, failed, all) ==
    IF failed = {} THEN subs
    ELSE LET id == CHOOSE i \in failed : \A other \in failed : i <= other
         IN  DeleteGone(deletePushSubscription(subs, all[id].endpoint),
                        failed \ {id}, all)

\* POST /api/push/subscribe
Subscribe(userId, endpoint) ==
    /\ pushNow < MaxPushOps
    /\ subscriptionId <= MaxSubscriptions
    /\ pushSubscriptionsMap' =
          [id \in DOMAIN pushSubscriptionsMap \cup {subscriptionId} |->
              IF id = subscriptionId THEN [userId |-> userId, endpoint |-> endpoint]
              ELSE pushSubscriptionsMap[id]]
    /\ subscriptionId' = subscriptionId + 1
    /\ pushLast' = [NoPushLast EXCEPT !.op = "subscribe", !.user = userId]
    /\ pushNow' = pushNow + 1
    /\ UNCHANGED notPushVars

\* DELETE /api/push/unsubscribe
Unsubscribe(userId, endpoint) ==
    /\ pushNow < MaxPushOps
    /\ pushSubscriptionsMap' = deletePushSubscription(pushSubscriptionsMap, endpoint)
    /\ pushLast' = [NoPushLast EXCEPT !.op = "unsubscribe", !.user = userId]
    /\ pushNow' = pushNow + 1
    /\ UNCHANGED subscriptionId
    /\ UNCHANGED notPushVars

\* sendNotificationToUser: one delivery per subscription of the user; outcome
\* is what the push service answers for each endpoint
sendNotificationToUser(userId, outcome) ==
    /\ pushNow < MaxPushOps
    /\ LET subscriptions == getUserPushSubscriptions(pushSubscriptionsMap, userId)
           failed == {id \in subscriptions :
                         outcome[pushSubscriptionsMap[id].endpoint] = "gone"}
       IN  /\ pushSubscriptionsMap' =
                 DeleteGone(pushSubscriptionsMap, failed, pushSubscriptionsMap)
           /\ pushLast' = [op |-> "send", user |-> userId, outcome |-> outcome,
                           sent |-> \E id \in subscriptions :
                               outcome[pushSubscriptionsMap[id].endpoint] = "ok"]
    /\ pushNow' = pushNow + 1
    /\ UNCHANGED subscriptionId
    /\ UNCHANGED notPushVars

PushNext ==
    \/ \E u \in Clients, e \in Endpoints : Subscribe(u, e)
    \/ \E u \in Clients, e \in Endpoints : Unsubscribe(u, e)
    \/ \E u \in Clients, outcome \in [Endpoints -> Deliveries] :
          sendNotificationToUser(u, outcome)


\* ---- boards, columns and tasks on the REST server ------------------------------
DefaultColumns == 3
BoardIds == 1..MaxBoards
ColumnIds == 1..(DefaultColumns * MaxBoards)

NoSrvLast == [op |-> "init", board |-> 0, column |-> 0, task |-> 0, status |-> 0]

PlaceInit ==
    /\ srvBoards = {}
    /\ srvBoardId = 1
    /\ srvColumns = << >>
    /\ srvColumnId = 1
    /\ srvTasks = << >>
    /\ srvTaskId = 1
    /\ srvNow = 0
    /\ srvLast = NoSrvLast

\* the server holds no board
PlaceIdle == PlaceInit

\* isBoardMember for the one user of this part, who owns every board there is
isMemberOfStored(boards, b) == b \in boards

\* MemStorage.createColumn for the columns lo..hi of board b
WithColumns(columns, lo, hi, b) ==
    [id \in DOMAIN columns \cup (lo..hi) |->
        IF id \in lo..hi THEN [boardId |-> b] ELSE columns[id]]

\* POST /api/boards: MemStorage.createBoard with its default columns
PostBoard ==
    /\ srvNow < MaxPlaceOps
    /\ srvBoardId <= MaxBoards
    /\ srvColumnId + DefaultColumns - 1 <= DefaultColumns * MaxBoards
    /\ srvBoards' = srvBoards \cup {srvBoardId}
    /\ srvBoardId' = srvBoardId + 1
    /\ srvColumns' = WithColumns(srvColumns, srvColumnId,
                                 srvColumnId + DefaultColumns - 1, srvBoardId)
    /\ srvColumnId' = srvColumnId + DefaultColumns
    /\ srvLast' = [NoSrvLast EXCEPT !.op = "post board", !.board = srvBoardId,
                     !.status = 201]
    /\ srvNow' = srvNow + 1
    /\ UNCHANGED <<srvTasks, srvTaskId>>
    /\ UNCHANGED notPlaceVars

\* DELETE /api/boards/:id: MemStorage.deleteBoard deletes the tasks and the
\* columns of the board
DeleteBoard(b) ==
    /\ srvNow < MaxPlaceOps
    /\ IF b \in srvBoards
       THEN /\ srvTasks' = [t \in {u \in DOMAIN srvTasks : srvTasks[u].boardId # b}
                              |-> srvTasks[t]]
            /\ srvColumns' = [c \in {d \in DOMAIN srvColumns :
                                        srvColumns[d].boardId # b} |-> srvColumns[c]]
            /\ srvBoards' = srvBoards \ {b}
            /\ srvLast' = [NoSrvLast EXCEPT !.op = "delete board", !.board = b,
                             !.status = 200]
       ELSE /\ UNCHANGED <<srvTasks, srvColumns, srvBoards>>
            /\ srvLast' = [NoSrvLast EXCEPT !.op = "delete board", !.board = b,
                             !.status = 404]
    /\ srvNow' = srvNow + 1
    /\ UNCHANGED <<srvBoardId, srvColumnId, srvTaskId>>
    /\ UNCHANGED notPlaceVars

\* DELETE /api/columns/:id?boardId=: membership of the board named in the
\* query; MemStorage.deleteColumn deletes the tasks of the column
DeleteColumn(col, b) ==
    /\ srvNow < MaxPlaceOps
    /\ IF isMemberOfStored(srvBoards, b)
       THEN /\ IF col \in DOMAIN srvColumns
               THEN /\ srvTasks' = [t \in {u \in DOMAIN srvTasks :
                                              srvTasks[u].columnId # col}
                                      |-> srvTasks[t]]
                    /\ srvColumns' = [c \in DOMAIN srvColumns \ {col} |-> srvColumns[c]]
               ELSE UNCHANGED <<srvTasks, srvColumns>>
            /\ srvLast' = [NoSrvLast EXCEPT !.op = "delete column", !.board = b,
                             !.column = col, !.status = 200]
       ELSE /\ UNCHANGED <<srvTasks, srvColumns>>
            /\ srvLast' = [NoSrvLast EXCEPT !.op = "delete column", !.board = b,
                             !.column = col, !.status = 403]
    /\ srvNow' = srvNow + 1
    /\ UNCHANGED <<srvBoards, srvBoardId, srvColumnId, srvTaskId>>
    /\ UNCHANGED notPlaceVars

\* POST /api/tasks: the body is parsed by insertTaskSchema and the user must
\* be a member of body.boardId
PostTaskStatus(b, col) ==
    IF ~isMemberOfStored(srvBoards, b) THEN 403 ELSE 201

PostTask(b, col) ==
    /\ srvNow < MaxPlaceOps
    /\ srvTaskId <= MaxPlacedTasks
    /\ IF PostTaskStatus(b, col) = 201
       THEN /\ srvTasks' = [t \in DOMAIN srvTasks \cup {srvTaskId} |->
                              IF t = srvTaskId THEN [boardId |-> b, columnId |-> col]
                              ELSE srvTasks[t]]
            /\ srvTaskId' = srvTaskId + 1
       ELSE UNCHANGED <<srvTasks, srvTaskId>>
    /\ srvLast' = [NoSrvLast EXCEPT !.op = "post task", !.board = b, !.column = col,
                     !.status = PostTaskStatus(b, col)]
    /\ srvNow' = srvNow + 1
    /\ UNCHANGED <<srvBoards, srvBoardId, srvColumns, srvColumnId>>
    /\ UNCHANGED notPlaceVars

\* PUT /api/tasks/:id with body { columnId, order }: the task must exist and
\* the user be a member of its board; the body is merged into the task
PutTaskStatus(t) ==
    IF t \notin DOMAIN srvTasks THEN 404
    ELSE IF ~isMemberOfStored(srvBoards, srvTasks[t].boardId) THEN 403
    ELSE 200

PutTask(t, col) ==
    /\ srvNow < MaxPlaceOps
    /\ srvTasks' = IF PutTaskStatus(t) = 200
                   THEN [srvTasks EXCEPT ![t] = [@ EXCEPT !.columnId = col]]
                   ELSE srvTasks
    /\ srvLast' = [NoSrvLast EXCEPT !.op = "put task", !.task = t, !.column = col,
                     !.status = PutTaskStatus(t)]
    /\ srvNow' = srvNow + 1
    /\ UNCHANGED <<srvBoards, srvBoardId, srvColumns, srvColumnId, srvTaskId>>
    /\ UNCHANGED notPlaceVars

PlaceNext ==
    \/ PostBoard
    \/ \E b \in BoardIds : DeleteBoard(b)
    \/ \E col \in ColumnIds, b \in BoardIds : DeleteColumn(col, b)
    \/ \E b \in BoardIds, col \in ColumnIds : PostTask(b, col)
    \/ \E t \in 1..MaxPlacedTasks, col \in ColumnIds : PutTask(t, col)


\* ---- the subscription to the boards of a user ----------------------------------
\* the state when onUserBoardsChange has returned: both listeners are attached
\* and each has its first snapshot to come
SubInit ==
    /\ fbBoards = << >>
    /\ fbMemberships = {}
    /\ ownedBoards = << >>
    /\ memberBoards = << >>
    /\ memPending = TRUE
    /\ ownPending = TRUE
    /\ handlers = << >>
    /\ unsubscribed = FALSE
    /\ callbacks = 0
    /\ delivered = << >>
    /\ subNow = 0

\* no subscription is in use
SubIdle == SubInit

\* the ids of a set of documents in the order of a query snapshot
RECURSIVE DocsOf(_)
DocsOf(S) ==
    IF S = {} THEN << >>
    ELSE LET id == CHOOSE i \in S : \A other \in S : i <= other
         IN  <<id>> \o DocsOf(S \ {id})

\* [...ownedBoards, ...memberBoards].sort(newest first); a board created later
\* has the larger id here, and the sort is stable
RECURSIVE NewestFirst(_, _)
NewestFirst(seq, id) ==
    IF id = 0 THEN << >>
    ELSE SelectSeq(seq, LAMBDA x : x = id) \o NewestFirst(seq, id - 1)

allBoards(owned, member) == NewestFirst(owned \o member, MaxBoards)

\* a board document is written by the user or by somebody else
WriteBoard(b, createdBy) ==
    /\ subNow < MaxSubOps
    /\ b \notin DOMAIN fbBoards
    /\ fbBoards' = [x \in DOMAIN fbBoards \cup {b} |->
                       IF x = b THEN createdBy ELSE fbBoards[x]]
    /\ ownPending' = (ownPending \/ (createdBy = ownerId /\ ~unsubscribed))
    /\ subNow' = subNow + 1
    /\ UNCHANGED <<fbMemberships, ownedBoards, memberBoards, memPending, handlers,
                   unsubscribed, callbacks, delivered>>
    /\ UNCHANGED notSubVars

\* a boardMembers document of the user is written
WriteMembership(b) ==
    /\ subNow < MaxSubOps
    /\ b \notin fbMemberships
    /\ fbMemberships' = fbMemberships \cup {b}
    /\ memPending' = ~unsubscribed
    /\ subNow' = subNow + 1
    /\ UNCHANGED <<fbBoards, ownedBoards, memberBoards, ownPending, handlers,
                   unsubscribed, callbacks, delivered>>
    /\ UNCHANGED notSubVars

\* the membership listener up to its first await: boardsToFetch is computed;
\* when it is not empty memberBoards is emptied and the fetches begin
MembershipSnapshot ==
    /\ memPending
    /\ ~unsubscribed
    /\ LET membershipBoardIds == DocsOf(fbMemberships)
           boardsToFetch == SelectSeq(membershipBoardIds,
                               LAMBDA id : \A k \in 1..Len(ownedBoards) :
                                               ownedBoards[k] # id)
       IN  IF Len(boardsToFetch) > 0
           THEN /\ memberBoards' = << >>
                /\ handlers' = Append(handlers, boardsToFetch)
           ELSE UNCHANGED <<memberBoards, handlers>>
    /\ memPending' = FALSE
    /\ UNCHANGED <<fbBoards, fbMemberships, ownedBoards, ownPending, unsubscribed,
                   callbacks, delivered, subNow>>
    /\ UNCHANGED notSubVars

\* the membership listener after an await: getDoc of the next board resolves;
\* an existing board is pushed to memberBoards; after the last board the
\* combined list goes to callback
MemberFetchResolves(h) ==
    /\ h \in DOMAIN handlers
    /\ LET b == Head(handlers[h])
           rest == Tail(handlers[h])
           pushed == IF b \in DOMAIN fbBoards THEN Append(memberBoards, b)
                     ELSE memberBoards
       IN  /\ memberBoards' = pushed
           /\ IF rest = << >>
              THEN /\ handlers' = [k \in 1..(Len(handlers) - 1) |->
                                      IF k < h THEN handlers[k] ELSE handlers[k + 1]]
                   /\ callbacks' = callbacks + 1
                   /\ delivered' = allBoards(ownedBoards, pushed)
              ELSE /\ handlers' = [handlers EXCEPT ![h] = rest]
                   /\ UNCHANGED <<callbacks, delivered>>
    /\ UNCHANGED <<fbBoards, fbMemberships, ownedBoards, memPending, ownPending,
                   unsubscribed, subNow>>
    /\ UNCHANGED notSubVars

\* the owned-boards listener
OwnedSnapshot ==
    /\ ownPending
    /\ ~unsubscribed
    /\ ownedBoards' = DocsOf({b \in DOMAIN fbBoards : fbBoards[b] = ownerId})
    /\ callbacks' = callbacks + 1
    /\ delivered' = allBoards(ownedBoards', memberBoards)
    /\ ownPending' = FALSE
    /\ UNCHANGED <<fbBoards, fbMemberships, memberBoards, memPending, handlers,
                   unsubscribed, subNow>>
    /\ UNCHANGED notSubVars

\* the function onUserBoardsChange returned: both listeners are detached
UnsubscribeBoards ==
    /\ ~unsubscribed
    /\ unsubscribed' = TRUE
    /\ memPending' = FALSE
    /\ ownPending' = FALSE
    /\ UNCHANGED <<fbBoards, fbMemberships, ownedBoards, memberBoards, handlers,
                   callbacks, delivered, subNow>>
    /\ UNCHANGED notSubVars

SubNext ==
    \/ \E b \in 1..MaxBoards, by \in Clients : WriteBoard(b, by)
    \/ \E b \in 1..MaxBoards : WriteMembership(b)
    \/ MembershipSnapshot
    \/ \E h \in 1..MaxSubOps : MemberFetchResolves(h)
    \/ OwnedSnapshot
    \/ UnsubscribeBoards


\* ---- the board component with a filter -----------------------------------------
NoFilterLast == [op |-> "init", task |-> 0, src |-> 0, dst |-> 0, index |-> 0,
                 order |-> 0, shown |-> << >>]

\* the order the tasks got when they were created one after the other, each
\* at the end of its column
CreatedOrder(columnOf, t) ==
    Scale * Cardinality({u \in TaskIds : u < t /\ columnOf[u] = columnOf[t]})

\* a board whose tasks were created in some columns and never moved, shown
\* under some filter
FilterInit ==
    /\ \E columnOf \in [TaskIds -> Columns] :
          filterTasks = [t \in TaskIds |->
                            [columnId |-> columnOf[t], boardId |-> boardId,
                             order |-> CreatedOrder(columnOf, t),
                             createdBy |-> ownerId, createdAt |-> 0,
                             updatedAt |-> 0]]
    /\ matches \in SUBSET TaskIds
    /\ filterLast = NoFilterLast

\* the component is not in use
FilterIdle ==
    /\ filterTasks = << >>
    /\ matches = {}
    /\ filterLast = NoFilterLast

\* what a column shows: filteredTasks.filter(task => task.columnId === column.id)
filteredTasks(tasks, shown, columnId) ==
    SelectSeq(SortedColumn(tasks, columnId), LAMBDA t : t \in shown)

\* handleDragEnd for a drop of a shown task at an index of the shown list of
\* the destination column, followed by the move request and the refetch
DropOnFiltered(t, destinationColumnId, index) ==
    /\ filterLast.op \in {"init", "dropped back"}
    /\ t \in matches
    /\ IF \/ destinationColumnId = NoDestination
          \/ (/\ filterTasks[t].columnId = destinationColumnId
              /\ index = IndexOf(filteredTasks(filterTasks, matches,
                                               destinationColumnId), t))
       THEN \* no destination, or dropped back in the same place: return
            /\ filterLast' = [NoFilterLast EXCEPT !.op = "dropped back"]
            /\ UNCHANGED filterTasks
       ELSE /\ index <= Len(Without(filteredTasks(filterTasks, matches,
                                                  destinationColumnId), t))
            /\ NewOrderExact(filterTasks, destinationColumnId, index)
            /\ LET newOrder == NewOrder(filterTasks, destinationColumnId, index)
               IN  /\ Representable(newOrder)
                   /\ filterTasks' = StorageUpdateTask(filterTasks, t,
                                         destinationColumnId, newOrder, 1)
                   /\ filterLast' = [op |-> "drop", task |-> t,
                                     src |-> filterTasks[t].columnId,
                                     dst |-> destinationColumnId, index |-> index,
                                     order |-> newOrder,
                                     shown |-> filteredTasks(filterTasks, matches,
                                                             destinationColumnId)]
    /\ UNCHANGED matches
    /\ UNCHANGED notFilterVars

FilterNext ==
    \E t \in TaskIds, col \in Columns \cup {NoDestination}, i \in 0..MaxTasks :
        DropOnFiltered(t, col, i)

\* ---- the stores behind IStorage -----------------------------------------------
Implementations == {"MemStorage", "DatabaseStorage", "MongoDBStorage"}
StoreBoardIds == 1..MaxStoreBoards
StoreTaskIds == 1..MaxStoreTasks

NoStLast == [op |-> "init", id |-> 0, ok |-> TRUE, tasks |-> {},
             before |-> << >>]

\* the records of a store
Records ==
    [boards |-> stBoards, members |-> stMembers, columns |-> stColumns,
     tasks |-> stTasks, assignees |-> stAssignees]

\* the constructors: no record yet
StoreInit ==
    /\ stBoards = << >>
    /\ stBoardId = 1
    /\ stMembers = << >>
    /\ stColumns = << >>
    /\ stColumnId = 1
    /\ stTasks = << >>
    /\ stTaskId = 1
    /\ stAssignees = {}
    /\ stLast = NoStLast

\* no store is in use
StoreIdle == StoreInit /\ stImpl = "MemStorage"

\* the elements of a set of ids in ascending order
Ascending(S) ==
    CHOOSE seq \in [1..Cardinality(S) -> S] :
        \A i, j \in 1..Cardinality(S) : i < j => seq[i] < seq[j]

\* array.filter
RECURSIVE FilterSeq(_, _)
FilterSeq(seq, S) ==
    IF seq = << >> THEN << >>
    ELSE IF Head(seq) \in S THEN <<Head(seq)>> \o FilterSeq(Tail(seq), S)
    ELSE FilterSeq(Tail(seq), S)

\* the board ids of the records of a user, in the order of the records
MemberBoardIds(members, userId) ==
    LET own == SelectSeq(members, LAMBDA m : m.userId = userId)
    IN  [k \in 1..Len(own) |-> own[k].boardId]

\* getBoardsForUser: [...ownedBoards, ...memberBoards], as board ids.
\* MemStorage and DatabaseStorage look up the board of every membership and
\* drop the missing ones; MongoDBStorage finds the boards whose id is among
\* the distinct board ids of the memberships.
getBoardsForUser(impl, boards, members, userId) ==
    LET owned == Ascending({b \in DOMAIN boards : boards[b] = userId})
        ids == MemberBoardIds(members, userId)
        member ==
            IF impl = "MongoDBStorage"
            THEN Ascending({b \in DOMAIN boards : \E k \in 1..Len(ids) : ids[k] = b})
            ELSE FilterSeq(ids, DOMAIN boards)
    IN  owned \o member

\* createBoard: the board, the membership of its owner and, in MemStorage and
\* DatabaseStorage, the three default columns
createBoard(ownerId_) ==
    /\ stBoardId <= MaxStoreBoards
    /\ stBoards' = [b \in DOMAIN stBoards \cup {stBoardId} |->
                      IF b = stBoardId THEN ownerId_ ELSE stBoards[b]]
    /\ stBoardId' = stBoardId + 1
    /\ stMembers' = Append(stMembers, [boardId |-> stBoardId, userId |-> ownerId_])
    /\ IF stImpl = "MongoDBStorage"
       THEN UNCHANGED <<stColumns, stColumnId>>
       ELSE /\ stColumns' = [c \in DOMAIN stColumns
                                   \cup (stColumnId..(stColumnId + DefaultColumns - 1)) |->
                               IF c \in DOMAIN stColumns THEN stColumns[c] ELSE stBoardId]
            /\ stColumnId' = stColumnId + DefaultColumns
    /\ stLast' = [NoStLast EXCEPT !.op = "createBoard", !.id = stBoardId]
    /\ UNCHANGED <<stImpl, stTasks, stTaskId, stAssignees>>
    /\ UNCHANGED notStoreVars

\* addBoardMember, called by POST /api/boards/:id/members for a user that has
\* no membership of the board yet
addBoardMember(b, userId) ==
    /\ b \in DOMAIN stBoards
    /\ \A k \in 1..Len(stMembers) :
          ~(stMembers[k].boardId = b /\ stMembers[k].userId = userId)
    /\ stMembers' = Append(stMembers, [boardId |-> b, userId |-> userId])
    /\ stLast' = [NoStLast EXCEPT !.op = "addBoardMember", !.id = b]
    /\ UNCHANGED <<stImpl, stBoards, stBoardId, stColumns, stColumnId, stTasks,
                   stTaskId, stAssignees>>
    /\ UNCHANGED notStoreVars

\* createColumn, called by POST /api/columns for an existing board
createColumn(b) ==
    /\ stColumnId <= MaxStoreColumns
    /\ b \in DOMAIN stBoards
    /\ stColumns' = [c \in DOMAIN stColumns \cup {stColumnId} |->
                       IF c = stColumnId THEN b ELSE stColumns[c]]
    /\ stColumnId' = stColumnId + 1
    /\ stLast' = [NoStLast EXCEPT !.op = "createColumn", !.id = stColumnId]
    /\ UNCHANGED <<stImpl, stBoards, stBoardId, stMembers, stTasks, stTaskId,
                   stAssignees>>
    /\ UNCHANGED notStoreVars

\* createTask, called for a column of the board the task is created on
createTask(b, columnId) ==
    /\ stTaskId <= MaxStoreTasks
    /\ b \in DOMAIN stBoards
    /\ columnId \in DOMAIN stColumns
    /\ stColumns[columnId] = b
    /\ stTasks' = [t \in DOMAIN stTasks \cup {stTaskId} |->
                     IF t = stTaskId THEN [boardId |-> b, columnId |-> columnId]
                     ELSE stTasks[t]]
    /\ stTaskId' = stTaskId + 1
    /\ stLast' = [NoStLast EXCEPT !.op = "createTask", !.id = stTaskId]
    /\ UNCHANGED <<stImpl, stBoards, stBoardId, stMembers, stColumns, stColumnId,
                   stAssignees>>
    /\ UNCHANGED notStoreVars

\* assignTask, called for an existing task and a user not yet assigned to it
assignTask(t, userId) ==
    /\ t \in DOMAIN stTasks
    /\ [taskId |-> t, userId |-> userId] \notin stAssignees
    /\ stAssignees' = stAssignees \cup {[taskId |-> t, userId |-> userId]}
    /\ stLast' = [NoStLast EXCEPT !.op = "assignTask", !.id = t]
    /\ UNCHANGED <<stImpl, stBoards, stBoardId, stMembers, stColumns, stColumnId,
                   stTasks, stTaskId>>
    /\ UNCHANGED notStoreVars

\* the records without those of board id and of its tasks
CascadeDeleted(r, id) ==
    LET boardTasks == {t \in DOMAIN r.tasks : r.tasks[t].boardId = id}
    IN  [boards |-> Restrict(r.boards, {id}),
         members |-> SelectSeq(r.members, LAMBDA m : m.boardId # id),
         columns |-> Restrict(r.columns, {c \in DOMAIN r.columns : r.columns[c] = id}),
         tasks |-> Restrict(r.tasks, boardTasks),
         assignees |-> {a \in r.assignees : a.taskId \notin boardTasks}]

\* MemStorage.deleteBoard
MemStorage_deleteBoard(r, id) ==
    IF id \notin DOMAIN r.boards THEN [records |-> r, ok |-> FALSE]
    ELSE [records |-> CascadeDeleted(r, id), ok |-> TRUE]

\* DatabaseStorage.deleteBoard: the assignees of the tasks of the board, the
\* tasks, the columns, the members, the board; true if a board row was deleted
DatabaseStorage_deleteBoard(r, id) ==
    [records |-> CascadeDeleted(r, id), ok |-> id \in DOMAIN r.boards]

\* MongoDBStorage.deleteBoard: the board, the members, then Task.deleteMany
\* and only after it TaskAssignee.deleteMany for the tasks Task.find still
\* finds for the board, then the columns
MongoDBStorage_deleteBoard(r, id) ==
    LET afterTasks == Restrict(r.tasks, {t \in DOMAIN r.tasks : r.tasks[t].boardId = id})
        found == {t \in DOMAIN afterTasks : afterTasks[t].boardId = id}
    IN  [records |->
            [boards |-> Restrict(r.boards, {id}),
             members |-> SelectSeq(r.members, LAMBDA m : m.boardId # id),
             columns |-> Restrict(r.columns, {c \in DOMAIN r.columns : r.columns[c] = id}),
             tasks |-> afterTasks,
             assignees |-> {a \in r.assignees : a.taskId \notin found}],
         ok |-> TRUE]

deleteBoard(id) ==
    /\ LET result == CASE stImpl = "MemStorage" -> MemStorage_deleteBoard(Records, id)
                       [] stImpl = "DatabaseStorage" -> DatabaseStorage_deleteBoard(Records, id)
                       [] stImpl = "MongoDBStorage" -> MongoDBStorage_deleteBoard(Records, id)
       IN  /\ stBoards' = result.records.boards
           /\ stMembers' = result.records.members
           /\ stColumns' = result.records.columns
           /\ stTasks' = result.records.tasks
           /\ stAssignees' = result.records.assignees
           /\ stLast' = [op |-> "deleteBoard", id |-> id, ok |-> result.ok,
                         tasks |-> {t \in DOMAIN stTasks : stTasks[t].boardId = id},
                         before |-> Records]
    /\ UNCHANGED <<stImpl, stBoardId, stColumnId, stTaskId>>
    /\ UNCHANGED notStoreVars

StoreNext ==
    \/ \E u \in Users : createBoard(u)
    \/ \E b \in StoreBoardIds, u \in Users : addBoardMember(b, u)
    \/ \E b \in StoreBoardIds : createColumn(b)
    \/ \E b \in StoreBoardIds, col \in 1..(DefaultColumns * MaxStoreBoards) :
          createTask(b, col)
    \/ \E t \in StoreTaskIds, u \in Users : assignTask(t, u)
    \/ \E b \in StoreBoardIds : deleteBoard(b)

\* ---- the column and task routes for the boards of several users ---------------
NoAzLast == [op |-> "init", user |-> 0, status |-> 0]

\* a field a request body leaves out
Absent == 0

AuthzInit ==
    /\ azBoards = << >>
    /\ azBoardId = 1
    /\ azColumns = << >>
    /\ azColumnId = 1
    /\ azTasks = << >>
    /\ azTaskId = 1
    /\ azNow = 0
    /\ azLast = NoAzLast

\* the server holds no board
AuthzIdle == AuthzInit

\* isBoardMember(boardId, userId): the owner, or a user with a board-member
\* record; the only records of this part are those createBoard adds for owners
isBoardMemberOfStored(boards, b, userId) ==
    b \in DOMAIN boards /\ boards[b] = userId

\* POST /api/boards as user u: MemStorage.createBoard with its default columns
PostBoardAs(u) ==
    /\ azNow < MaxAuthzOps
    /\ azBoardId <= MaxBoards
    /\ azBoards' = [b \in DOMAIN azBoards \cup {azBoardId} |->
                      IF b = azBoardId THEN u ELSE azBoards[b]]
    /\ azBoardId' = azBoardId + 1
    /\ azColumns' = [c \in DOMAIN azColumns
                           \cup (azColumnId..(azColumnId + DefaultColumns - 1)) |->
                       IF c \in DOMAIN azColumns THEN azColumns[c] ELSE azBoardId]
    /\ azColumnId' = azColumnId + DefaultColumns
    /\ azLast' = [op |-> "post board", user |-> u, status |-> 201]
    /\ azNow' = azNow + 1
    /\ UNCHANGED <<azTasks, azTaskId>>
    /\ UNCHANGED notAuthzVars

\* DELETE /api/columns/:id?boardId= as user u: the membership checked is that
\* of the board named in the query; MemStorage.deleteColumn deletes the tasks
\* of the column
DeleteColumnAs(u, col, b) ==
    /\ azNow < MaxAuthzOps
    /\ IF isBoardMemberOfStored(azBoards, b, u)
       THEN /\ IF col \in DOMAIN azColumns
               THEN /\ azTasks' = Restrict(azTasks, {t \in DOMAIN azTasks :
                                                       azTasks[t].columnId = col})
                    /\ azColumns' = Restrict(azColumns, {col})
               ELSE UNCHANGED <<azTasks, azColumns>>
            /\ azLast' = [op |-> "delete column", user |-> u, status |-> 200]
       ELSE /\ UNCHANGED <<azTasks, azColumns>>
            /\ azLast' = [op |-> "delete column", user |-> u, status |-> 403]
    /\ azNow' = azNow + 1
    /\ UNCHANGED <<azBoards, azBoardId, azColumnId, azTaskId>>
    /\ UNCHANGED notAuthzVars

\* POST /api/tasks as user u: u must be a member of body.boardId
PostTaskAs(u, b, col) ==
    /\ azNow < MaxAuthzOps
    /\ azTaskId <= MaxPlacedTasks
    /\ IF isBoardMemberOfStored(azBoards, b, u)
       THEN /\ azTasks' = [t \in DOMAIN azTasks \cup {azTaskId} |->
                             IF t = azTaskId THEN [boardId |-> b, columnId |-> col]
                             ELSE azTasks[t]]
            /\ azTaskId' = azTaskId + 1
            /\ azLast' = [op |-> "post task", user |-> u, status |-> 201]
       ELSE /\ UNCHANGED <<azTasks, azTaskId>>
            /\ azLast' = [op |-> "post task", user |-> u, status |-> 403]
    /\ azNow' = azNow + 1
    /\ UNCHANGED <<azBoards, azBoardId, azColumns, azColumnId>>
    /\ UNCHANGED notAuthzVars

\* the status of PUT and DELETE /api/tasks/:id as user u
TaskStatusAs(u, t) ==
    IF t \notin DOMAIN azTasks THEN 404
    ELSE IF ~isBoardMemberOfStored(azBoards, azTasks[t].boardId, u) THEN 403
    ELSE 200

\* PUT /api/tasks/:id as user u: storage.updateTask(taskId, req.body) merges
\* the fields of the body into the task
PutTaskAs(u, t, b, col) ==
    /\ azNow < MaxAuthzOps
    /\ azTasks' = IF TaskStatusAs(u, t) = 200
                  THEN [azTasks EXCEPT ![t] =
                          [boardId |-> IF b = Absent THEN @.boardId ELSE b,
                           columnId |-> IF col = Absent THEN @.columnId ELSE col]]
                  ELSE azTasks
    /\ azLast' = [op |-> "put task", user |-> u, status |-> TaskStatusAs(u, t)]
    /\ azNow' = azNow + 1
    /\ UNCHANGED <<azBoards, azBoardId, azColumns, azColumnId, azTaskId>>
    /\ UNCHANGED notAuthzVars

\* DELETE /api/tasks/:id as user u
DeleteTaskAs(u, t) ==
    /\ azNow < MaxAuthzOps
    /\ azTasks' = IF TaskStatusAs(u, t) = 200 THEN Restrict(azTasks, {t})
                  ELSE azTasks
    /\ azLast' = [op |-> "delete task", user |-> u, status |-> TaskStatusAs(u, t)]
    /\ azNow' = azNow + 1
    /\ UNCHANGED <<azBoards, azBoardId, azColumns, azColumnId, azTaskId>>
    /\ UNCHANGED notAuthzVars

AuthzNext ==
    \/ \E u \in Users : PostBoardAs(u)
    \/ \E u \in Users, col \in ColumnIds, b \in BoardIds : DeleteColumnAs(u, col, b)
    \/ \E u \in Users, b \in BoardIds, col \in ColumnIds : PostTaskAs(u, b, col)
    \/ \E u \in Users, t \in 1..MaxPlacedTasks, b \in BoardIds \cup {Absent},
          col \in ColumnIds \cup {Absent} : PutTaskAs(u, t, b, col)
    \/ \E u \in Users, t \in 1..MaxPlacedTasks : DeleteTaskAs(u, t)

\* ---- the board, member and assignee routes --------------------------------------
TeamBoardIds == 1..MaxTeamBoards
TeamTaskIds == 1..MaxTeamTasks

NoTmLast == [op |-> "init", user |-> 0, status |-> 0]

TeamInit ==
    /\ tmBoards = << >>
    /\ tmBoardId = 1
    /\ tmMembers = {}
    /\ tmTasks = << >>
    /\ tmTaskId = 1
    /\ tmAssignees = {}
    /\ tmLast = NoTmLast

\* the server holds no board
TeamIdle == TeamInit

Member(b, userId) == [boardId |-> b, userId |-> userId]
Assignee(t, userId) == [taskId |-> t, userId |-> userId]

\* isBoardMember(boardId, userId): the owner of the board, or a user with a
\* board-member record of the board
isBoardMemberIn(boards, members, b, userId) ==
    \/ (b \in DOMAIN boards /\ boards[b] = userId)
    \/ Member(b, userId) \in members

\* POST /api/boards as user u: createBoard stores the board with ownerId u and
\* the board-member record of u
PostBoardBy(u) ==
    /\ tmBoardId <= MaxTeamBoards
    /\ tmBoards' = [b \in DOMAIN tmBoards \cup {tmBoardId} |->
                      IF b = tmBoardId THEN u ELSE tmBoards[b]]
    /\ tmBoardId' = tmBoardId + 1
    /\ tmMembers' = tmMembers \cup {Member(tmBoardId, u)}
    /\ tmLast' = [op |-> "post board", user |-> u, status |-> 201]
    /\ UNCHANGED <<tmTasks, tmTaskId, tmAssignees>>
    /\ UNCHANGED notTeamVars

\* the status of the routes only the owner of the board may use
OwnerStatus(u, b) ==
    IF b \notin DOMAIN tmBoards THEN 404
    ELSE IF tmBoards[b] # u THEN 403
    ELSE 200

\* PUT /api/boards/:id as user u: updateBoard merges req.body into the board;
\* newOwnerId is the ownerId of the body, if it has one
PutBoardBy(u, b, newOwnerId) ==
    /\ tmBoards' = IF OwnerStatus(u, b) = 200 /\ newOwnerId # Absent
                   THEN [tmBoards EXCEPT ![b] = newOwnerId]
                   ELSE tmBoards
    /\ tmLast' = [op |-> "put board", user |-> u, status |-> OwnerStatus(u, b)]
    /\ UNCHANGED <<tmBoardId, tmMembers, tmTasks, tmTaskId, tmAssignees>>
    /\ UNCHANGED notTeamVars

\* DELETE /api/boards/:id as user u: deleteBoard deletes the tasks of the
\* board with their assignees, the members and the board
DeleteBoardBy(u, b) ==
    /\ IF OwnerStatus(u, b) = 200
       THEN LET boardTasks == {t \in DOMAIN tmTasks : tmTasks[t] = b}
            IN  /\ tmTasks' = Restrict(tmTasks, boardTasks)
                /\ tmAssignees' = {a \in tmAssignees : a.taskId \notin boardTasks}
                /\ tmMembers' = {m \in tmMembers : m.boardId # b}
                /\ tmBoards' = Restrict(tmBoards, {b})
       ELSE UNCHANGED <<tmTasks, tmAssignees, tmMembers, tmBoards>>
    /\ tmLast' = [op |-> "delete board", user |-> u, status |-> OwnerStatus(u, b)]
    /\ UNCHANGED <<tmBoardId, tmTaskId>>
    /\ UNCHANGED notTeamVars

\* POST /api/boards/:id/members as user u for the user with the email of the
\* body: 400 if that user has a board-member record of the board
PostMemberStatus(u, b, userToAdd) ==
    IF OwnerStatus(u, b) # 200 THEN OwnerStatus(u, b)
    ELSE IF Member(b, userToAdd) \in tmMembers THEN 400
    ELSE 201

PostMemberBy(u, b, userToAdd) ==
    /\ tmMembers' = IF PostMemberStatus(u, b, userToAdd) = 201
                    THEN tmMembers \cup {Member(b, userToAdd)}
                    ELSE tmMembers
    /\ tmLast' = [op |-> "post member", user |-> u,
                  status |-> PostMemberStatus(u, b, userToAdd)]
    /\ UNCHANGED <<tmBoards, tmBoardId, tmTasks, tmTaskId, tmAssignees>>
    /\ UNCHANGED notTeamVars

\* DELETE /api/boards/:boardId/members/:userId as user u: the owner removes
\* any member, a member itself; the owner is not removed
DeleteMemberStatus(u, b, userIdToRemove) ==
    IF b \notin DOMAIN tmBoards THEN 404
    ELSE IF tmBoards[b] # u /\ userIdToRemove # u THEN 403
    ELSE IF userIdToRemove = tmBoards[b] THEN 400
    ELSE 200

DeleteMemberBy(u, b, userIdToRemove) ==
    /\ tmMembers' = IF DeleteMemberStatus(u, b, userIdToRemove) = 200
                    THEN tmMembers \ {Member(b, userIdToRemove)}
                    ELSE tmMembers
    /\ tmLast' = [op |-> "delete member", user |-> u,
                  status |-> DeleteMemberStatus(u, b, userIdToRemove)]
    /\ UNCHANGED <<tmBoards, tmBoardId, tmTasks, tmTaskId, tmAssignees>>
    /\ UNCHANGED notTeamVars

\* POST /api/tasks as user u with body.boardId = b (the column of the task
\* plays no part here)
PostTaskBy(u, b) ==
    /\ tmTaskId <= MaxTeamTasks
    /\ IF isBoardMemberIn(tmBoards, tmMembers, b, u)
       THEN /\ tmTasks' = [t \in DOMAIN tmTasks \cup {tmTaskId} |->
                             IF t = tmTaskId THEN b ELSE tmTasks[t]]
            /\ tmTaskId' = tmTaskId + 1
            /\ tmLast' = [op |-> "post task", user |-> u, status |-> 201]
       ELSE /\ UNCHANGED <<tmTasks, tmTaskId>>
            /\ tmLast' = [op |-> "post task", user |-> u, status |-> 403]
    /\ UNCHANGED <<tmBoards, tmBoardId, tmMembers, tmAssignees>>
    /\ UNCHANGED notTeamVars

\* POST /api/tasks/:taskId/assignees as user u with body.userId: 400 unless
\* that user has a board-member record of the board of the task
PostAssigneeStatus(u, t, userId) ==
    IF t \notin DOMAIN tmTasks THEN 404
    ELSE IF ~isBoardMemberIn(tmBoards, tmMembers, tmTasks[t], u) THEN 403
    ELSE IF Member(tmTasks[t], userId) \notin tmMembers THEN 400
    ELSE 201

PostAssigneeBy(u, t, userId) ==
    /\ tmAssignees' = IF PostAssigneeStatus(u, t, userId) = 201
                      THEN tmAssignees \cup {Assignee(t, userId)}
                      ELSE tmAssignees
    /\ tmLast' = [op |-> "post assignee", user |-> u,
                  status |-> PostAssigneeStatus(u, t, userId)]
    /\ UNCHANGED <<tmBoards, tmBoardId, tmMembers, tmTasks, tmTaskId>>
    /\ UNCHANGED notTeamVars

\* DELETE /api/tasks/:taskId/assignees/:userId as user u
DeleteAssigneeStatus(u, t) ==
    IF t \notin DOMAIN tmTasks THEN 404
    ELSE IF ~isBoardMemberIn(tmBoards, tmMembers, tmTasks[t], u) THEN 403
    ELSE 200

DeleteAssigneeBy(u, t, userIdToUnassign) ==
    /\ tmAssignees' = IF DeleteAssigneeStatus(u, t) = 200
                      THEN tmAssignees \ {Assignee(t, userIdToUnassign)}
                      ELSE tmAssignees
    /\ tmLast' = [op |-> "delete assignee", user |-> u,
                  status |-> DeleteAssigneeStatus(u, t)]
    /\ UNCHANGED <<tmBoards, tmBoardId, tmMembers, tmTasks, tmTaskId>>
    /\ UNCHANGED notTeamVars

TeamNext ==
    \/ \E u \in Users : PostBoardBy(u)
    \/ \E u \in Users, b \in TeamBoardIds, o \in Users \cup {Absent} :
          PutBoardBy(u, b, o)
    \/ \E u \in Users, b \in TeamBoardIds : DeleteBoardBy(u, b)
    \/ \E u \in Users, b \in TeamBoardIds, v \in Users : PostMemberBy(u, b, v)
    \/ \E u \in Users, b \in TeamBoardIds, v \in Users : DeleteMemberBy(u, b, v)
    \/ \E u \in Users, b \in TeamBoardIds : PostTaskBy(u, b)
    \/ \E u \in Users, t \in TeamTaskIds, v \in Users : PostAssigneeBy(u, t, v)
    \/ \E u \in Users, t \in TeamTaskIds, v \in Users : DeleteAssigneeBy(u, t, v)

\* ---- assignTaskToUser and unassignTaskFromUser ----------------------------------
AssignInit ==
    /\ assignedTo = << >>
    /\ calls = << >>
    /\ notifications = << >>

\* no call has been made
AssignIdle == AssignInit

\* array.includes
Includes(seq, x) == \E k \in 1..Len(seq) : seq[k] = x

\* assignTaskToUser up to getDoc(taskRef): the call holds the task it has read
AssignRead(userId, currentUserId) ==
    /\ Len(calls) < MaxAssignCalls
    /\ calls' = Append(calls, [op |-> "assign", userId |-> userId,
                               currentUserId |-> currentUserId, pc |-> "read",
                               assignedTo |-> assignedTo])
    /\ UNCHANGED <<assignedTo, notifications>>
    /\ UNCHANGED notAssignVars

\* assignTaskToUser from the test of assignedTo.includes(userId) to updateDoc
AssignUpdate(k) ==
    /\ k \in DOMAIN calls
    /\ calls[k].op = "assign"
    /\ calls[k].pc = "read"
    /\ IF ~Includes(calls[k].assignedTo, calls[k].userId)
       THEN /\ assignedTo' = Append(calls[k].assignedTo, calls[k].userId)
            /\ calls' = [calls EXCEPT ![k].pc =
                           IF calls[k].userId # calls[k].currentUserId
                           THEN "updated" ELSE "done"]
       ELSE /\ calls' = [calls EXCEPT ![k].pc = "done"]
            /\ UNCHANGED assignedTo
    /\ UNCHANGED notifications
    /\ UNCHANGED notAssignVars

\* assignTaskToUser: createTaskAssignedNotification for another user
AssignNotify(k) ==
    /\ k \in DOMAIN calls
    /\ calls[k].pc = "updated"
    /\ notifications' = Append(notifications, calls[k].userId)
    /\ calls' = [calls EXCEPT ![k].pc = "done"]
    /\ UNCHANGED assignedTo
    /\ UNCHANGED notAssignVars

\* unassignTaskFromUser up to getDoc(taskRef)
UnassignRead(userId) ==
    /\ Len(calls) < MaxAssignCalls
    /\ calls' = Append(calls, [op |-> "unassign", userId |-> userId,
                               currentUserId |-> userId, pc |-> "read",
                               assignedTo |-> assignedTo])
    /\ UNCHANGED <<assignedTo, notifications>>
    /\ UNCHANGED notAssignVars

\* unassignTaskFromUser from the test of assignedTo.includes(userId) to updateDoc
UnassignUpdate(k) ==
    /\ k \in DOMAIN calls
    /\ calls[k].op = "unassign"
    /\ calls[k].pc = "read"
    /\ IF Includes(calls[k].assignedTo, calls[k].userId)
       THEN assignedTo' = SelectSeq(calls[k].assignedTo,
                                    LAMBDA id : id # calls[k].userId)
       ELSE UNCHANGED assignedTo
    /\ calls' = [calls EXCEPT ![k].pc = "done"]
    /\ UNCHANGED notifications
    /\ UNCHANGED notAssignVars

AssignNext ==
    \/ \E u \in Users, by \in Users : AssignRead(u, by)
    \/ \E k \in 1..MaxAssignCalls : AssignUpdate(k)
    \/ \E k \in 1..MaxAssignCalls : AssignNotify(k)
    \/ \E u \in Users : UnassignRead(u)
    \/ \E k \in 1..MaxAssignCalls : UnassignUpdate(k)

\* ---- the useOffline hook ----------------------------------------------------------
\* the hook is mounted: useState(!navigator.onLine), useState('unavailable'),
\* checkOfflineSupport has run up to indexedDB.open and the listeners of the
\* online and offline events are attached
ModeInit ==
    /\ indexedDBSupported \in BOOLEAN
    /\ onLine \in BOOLEAN
    /\ isOffline = ~onLine
    /\ isOfflineAtMount = isOffline
    /\ offlineMode = "unavailable"
    /\ openRequest = IF indexedDBSupported THEN "pending" ELSE "none"
    /\ queued = 0
    /\ saveResult = "none"

\* no component uses the hook
ModeIdle ==
    /\ indexedDBSupported = FALSE
    /\ onLine = TRUE
    /\ isOffline = FALSE
    /\ isOfflineAtMount = FALSE
    /\ offlineMode = "unavailable"
    /\ openRequest = "none"
    /\ queued = 0
    /\ saveResult = "none"

\* request.onsuccess of checkOfflineSupport; isOffline is the value the
\* effect closed over when the component mounted
OpenSuccess ==
    /\ openRequest = "pending"
    /\ openRequest' = "success"
    /\ offlineMode' = IF isOfflineAtMount THEN "ready" ELSE "syncing"
    /\ UNCHANGED <<indexedDBSupported, onLine, isOffline, isOfflineAtMount,
                   queued, saveResult>>
    /\ UNCHANGED notModeVars

\* request.onerror of checkOfflineSupport
OpenError ==
    /\ openRequest = "pending"
    /\ openRequest' = "error"
    /\ offlineMode' = "unavailable"
    /\ UNCHANGED <<indexedDBSupported, onLine, isOffline, isOfflineAtMount,
                   queued, saveResult>>
    /\ UNCHANGED notModeVars

\* the browser goes online: handleOnline
handleOnline ==
    /\ ~onLine
    /\ onLine' = TRUE
    /\ isOffline' = FALSE
    /\ offlineMode' = "syncing"
    /\ UNCHANGED <<indexedDBSupported, isOfflineAtMount, openRequest, queued,
                   saveResult>>
    /\ UNCHANGED notModeVars

\* the browser goes offline: handleOffline
handleOffline ==
    /\ onLine
    /\ onLine' = FALSE
    /\ isOffline' = TRUE
    /\ offlineMode' = "ready"
    /\ UNCHANGED <<indexedDBSupported, isOfflineAtMount, openRequest, queued,
                   saveResult>>
    /\ UNCHANGED notModeVars

\* saveOfflineOperation: false when offlineMode is 'unavailable'; otherwise
\* indexedDB.open, which throws without IndexedDB, and store.add, either of
\* which may fail (stored tells whether both succeeded)
saveOfflineOperation(stored) ==
    /\ queued < MaxQueued
    /\ IF offlineMode = "unavailable"
       THEN /\ saveResult' = "false"
            /\ UNCHANGED queued
       ELSE IF indexedDBSupported /\ stored
       THEN /\ saveResult' = "true"
            /\ queued' = queued + 1
       ELSE /\ saveResult' = "rejected"
            /\ UNCHANGED queued
    /\ UNCHANGED <<indexedDBSupported, onLine, isOffline, isOfflineAtMount,
                   offlineMode, openRequest>>
    /\ UNCHANGED notModeVars

ModeNext ==
    \/ OpenSuccess
    \/ OpenError
    \/ handleOnline
    \/ handleOffline
    \/ \E stored \in BOOLEAN : saveOfflineOperation(stored)

\* ==== specifications =========================================================
Next ==
    \/ \E c \in online : Refetch(c)
    \/ \E c \in online, col \in Columns : CreateTask(c, col)
    \/ \E c \in online, t \in TaskIds : DeleteTask(c, t)
    \/ \E c \in online, t \in TaskIds, col \in Columns, i \in 0..MaxTasks :
          HandleDragEnd(c, t, col, i)

\* one user working alone on the board
Init ==
    /\ InitBoard
    /\ online = {ownerId}
    /\ FsIdle
    /\ OffIdle
    /\ PushIdle
    /\ PlaceIdle
    /\ SubIdle
    /\ FilterIdle
    /\ StoreIdle
    /\ AuthzIdle
    /\ TeamIdle
    /\ AssignIdle
    /\ ModeIdle

Spec == Init /\ [][Next]_vars

\* the collaborators of the board working at the same time
InitCollab ==
    /\ InitBoard
    /\ online = Clients
    /\ FsIdle
    /\ OffIdle
    /\ PushIdle
    /\ PlaceIdle
    /\ SubIdle
    /\ FilterIdle
    /\ StoreIdle
    /\ AuthzIdle
    /\ TeamIdle
    /\ AssignIdle
    /\ ModeIdle

SpecCollab == InitCollab /\ [][Next]_vars

\* the REST client is not in use
RestIdle == InitBoard /\ online = {}

\* one user on the board page of the document store
InitFs ==
    /\ FsInit
    /\ fsOnline = {ownerId}
    /\ RestIdle
    /\ OffIdle
    /\ PushIdle
    /\ PlaceIdle
    /\ SubIdle
    /\ FilterIdle
    /\ StoreIdle
    /\ AuthzIdle
    /\ TeamIdle
    /\ AssignIdle
    /\ ModeIdle

SpecFs == InitFs /\ [][FsNext]_vars

\* the owner and a collaborator on the board page at the same time
InitFsCollab ==
    /\ FsInit
    /\ fsOnline = {ownerId, ownerId + 1}
    /\ RestIdle
    /\ OffIdle
    /\ PushIdle
    /\ PlaceIdle
    /\ SubIdle
    /\ FilterIdle
    /\ StoreIdle
    /\ AuthzIdle
    /\ TeamIdle
    /\ AssignIdle
    /\ ModeIdle

SpecFsCollab == InitFsCollab /\ [][FsNext]_vars

\* one device going on and off line
InitOffline ==
    /\ OffInit
    /\ RestIdle
    /\ FsIdle
    /\ PushIdle
    /\ PlaceIdle
    /\ SubIdle
    /\ FilterIdle
    /\ StoreIdle
    /\ AuthzIdle
    /\ TeamIdle
    /\ AssignIdle
    /\ ModeIdle

SpecOffline == InitOffline /\ [][OffNext]_vars

\* the server with the push subscriptions of its users
InitPush ==
    /\ PushInit
    /\ RestIdle
    /\ FsIdle
    /\ OffIdle
    /\ PlaceIdle
    /\ SubIdle
    /\ FilterIdle
    /\ StoreIdle
    /\ AuthzIdle
    /\ TeamIdle
    /\ AssignIdle
    /\ ModeIdle

SpecPush == InitPush /\ [][PushNext]_vars

\* the REST server with the boards of one user
InitPlace ==
    /\ PlaceInit
    /\ RestIdle
    /\ FsIdle
    /\ OffIdle
    /\ PushIdle
    /\ SubIdle
    /\ FilterIdle
    /\ StoreIdle
    /\ AuthzIdle
    /\ TeamIdle
    /\ AssignIdle
    /\ ModeIdle

SpecPlace == InitPlace /\ [][PlaceNext]_vars

\* one subscription to the boards of the user
InitSub ==
    /\ SubInit
    /\ RestIdle
    /\ FsIdle
    /\ OffIdle
    /\ PushIdle
    /\ PlaceIdle
    /\ FilterIdle
    /\ StoreIdle
    /\ AuthzIdle
    /\ TeamIdle
    /\ AssignIdle
    /\ ModeIdle

SpecSub == InitSub /\ [][SubNext]_vars

\* one drop on a board shown under a filter
InitFilter ==
    /\ FilterInit
    /\ RestIdle
    /\ FsIdle
    /\ OffIdle
    /\ PushIdle
    /\ PlaceIdle
    /\ SubIdle
    /\ StoreIdle
    /\ AuthzIdle
    /\ TeamIdle
    /\ AssignIdle
    /\ ModeIdle

SpecFilter == InitFilter /\ [][FilterNext]_vars

\* the board page of the owner on a board whose first column holds the two
\* tasks created first (orders 0 and 1), loaded and with nothing in flight
InitFsTwoTasks ==
    /\ fsTasks = [t \in 1..2 |-> [columnId |-> 1, order |-> t - 1]]
    /\ tasksData = [c \in Clients |-> TasksByColumn(fsTasks)]
    /\ snapPending = [c \in Clients |-> FALSE]
    /\ fsWrite = [c \in Clients |-> NoWrite]
    /\ fsFetch = [c \in Clients |-> NoFetch]
    /\ fsTimer = [c \in Clients |-> NoTimer]
    /\ fsNow = 0
    /\ fsLast = NoFsLast
    /\ fsDrop = [c \in Clients |-> NoDrop]
    /\ fsOnline = {ownerId}
    /\ RestIdle
    /\ OffIdle
    /\ PushIdle
    /\ PlaceIdle
    /\ SubIdle
    /\ FilterIdle
    /\ StoreIdle
    /\ AuthzIdle
    /\ TeamIdle
    /\ AssignIdle
    /\ ModeIdle
SpecFsTwoTasks == InitFsTwoTasks /\ [][FsNext]_vars

\* calls on a store of one of the three implementations
InitStore ==
    /\ StoreInit
    /\ stImpl \in Implementations
    /\ RestIdle
    /\ FsIdle
    /\ OffIdle
    /\ PushIdle
    /\ PlaceIdle
    /\ SubIdle
    /\ FilterIdle
    /\ AuthzIdle
    /\ TeamIdle
    /\ AssignIdle
    /\ ModeIdle
SpecStore == InitStore /\ [][StoreNext]_vars

\* one user dragging tasks, on the board component or on the board page
InitDragEnd == InitFilter \/ InitFs
DragEndNext == FilterNext \/ FsNext
SpecDragEnd == InitDragEnd /\ [][DragEndNext]_vars

\* the users sending requests about boards, columns and tasks
InitAuthz ==
    /\ AuthzInit
    /\ RestIdle
    /\ FsIdle
    /\ OffIdle
    /\ PushIdle
    /\ PlaceIdle
    /\ SubIdle
    /\ FilterIdle
    /\ StoreIdle
    /\ TeamIdle
    /\ AssignIdle
    /\ ModeIdle
SpecAuthz == InitAuthz /\ [][AuthzNext]_vars

\* the users sending requests about boards, members and assignees
InitTeam ==
    /\ TeamInit
    /\ RestIdle
    /\ FsIdle
    /\ OffIdle
    /\ PushIdle
    /\ PlaceIdle
    /\ SubIdle
    /\ FilterIdle
    /\ StoreIdle
    /\ AuthzIdle
    /\ AssignIdle
    /\ ModeIdle
SpecTeam == InitTeam /\ [][TeamNext]_vars

\* calls that assign users to a task and unassign them, their steps interleaved
InitAssign ==
    /\ AssignInit
    /\ RestIdle
    /\ FsIdle
    /\ OffIdle
    /\ PushIdle
    /\ PlaceIdle
    /\ SubIdle
    /\ FilterIdle
    /\ StoreIdle
    /\ AuthzIdle
    /\ TeamIdle
    /\ ModeIdle
SpecAssign == InitAssign /\ [][AssignNext]_vars

\* a component using the hook, in a browser with or without IndexedDB
InitMode ==
    /\ ModeInit
    /\ RestIdle
    /\ FsIdle
    /\ OffIdle
    /\ PushIdle
    /\ PlaceIdle
    /\ SubIdle
    /\ FilterIdle
    /\ StoreIdle
    /\ AuthzIdle
    /\ TeamIdle
    /\ AssignIdle
SpecMode == InitMode /\ [][ModeNext]_vars

\* ==== properties =============================================================
\* the snapshot the last handler computed from; a write leaves it as it was
View == boardData[last.client]

LastMove == last.op = "move" /\ last.status = 200
SourceColumn == View[last.task].columnId
CrossColumn == SourceColumn # last.dst

\* the orders of a column are pairwise distinct and positive
DistinctPositive(tasks, col) ==
    \A t \in ColumnTasks(tasks, col) :
        /\ tasks[t].order > 0
        /\ \A u \in ColumnTasks(tasks, col) :
              u # t => tasks[u].order # tasks[t].order

\* no two tasks of one column have the same order
UniqueOrders(tasks) ==
    \A t, u \in DOMAIN tasks :
        (t # u /\ tasks[t].columnId = tasks[u].columnId)
            => tasks[t].order # tasks[u].order

C2_SameColumnDropLandsAtIndex ==
    (LastMove /\ last.fresh /\ ~CrossColumn /\ DistinctPositive(View, last.dst))
    => IndexOf(SortedColumn(tasksMap, last.dst), last.task) = last.index

\* C3: a move changes one stored record, the moved task's, and of that record
\* only columnId, order and updatedAt; no task is added or removed.
C3_MoveChangesOneRecord ==
    [][ last'.op = "move"
        => /\ DOMAIN tasksMap' = DOMAIN tasksMap
           /\ taskId' = taskId
           /\ \A t \in DOMAIN tasksMap :
                 IF t = last'.task
                 THEN /\ tasksMap'[t].boardId = tasksMap[t].boardId
                      /\ tasksMap'[t].createdBy = tasksMap[t].createdBy
                      /\ tasksMap'[t].createdAt = tasksMap[t].createdAt
                 ELSE tasksMap'[t] = tasksMap[t] ]_vars

C3_Witness ==
    /\ LastMove
    /\ Cardinality(DOMAIN tasksMap) >= 2
    /\ tasksMap[last.task].columnId # View[last.task].columnId
    /\ tasksMap[last.task].order # View[last.task].order
    /\ tasksMap[last.task].createdBy # last.client

\* C4: as long as every request was computed on an up-to-date snapshot, no two
\* tasks of one column have equal orders.
C4_OrdersUniqueInColumn == allFresh => UniqueOrders(tasksMap)

\* C5: a drop at index i, 0 < i < length, gets the order
\* (order[i-1] + order[i]) / 2, strictly between order[i-1] and order[i].
C5_MiddleDropIsStrictlyBetween ==
    LET destinationTasks == SortedColumn(View, last.dst)
    IN  (last.op = "move" /\ last.index > 0
                          /\ last.index < Len(destinationTasks))
        => LET prev == View[destinationTasks[last.index]].order
               next == View[destinationTasks[last.index + 1]].order
           IN  /\ 2 * last.order = prev + next
               /\ prev < last.order
               /\ last.order < next

C7_EndDropIsLastPlusOne ==
    LET destinationTasks == SortedColumn(View, last.dst)
        n == Len(destinationTasks)
    IN  (last.op = "move" /\ n > 0 /\ last.index >= n)
        => /\ last.order = View[destinationTasks[n]].order + Scale
           /\ \A t \in ColumnTasks(View, last.dst) : View[t].order < last.order

C7_Witness ==
    /\ LastMove
    /\ Len(SortedColumn(View, last.dst)) >= 2
    /\ last.index >= Len(SortedColumn(View, last.dst))
    /\ tasksMap[last.task].order = last.order

\* C8: a drop into a column without tasks gets order 0, whatever the order the
\* task had.
C8_EmptyColumnDropIsZero ==
    (last.op = "move" /\ ColumnTasks(View, last.dst) = {})
    => /\ last.order = 0
       /\ last.status = 200 => tasksMap[last.task].order = 0

C8_Witness ==
    /\ LastMove
    /\ ColumnTasks(View, last.dst) = {}
    /\ View[last.task].order > 0
    /\ tasksMap[last.task].order = 0

\* C9: when the first task of the destination has order 0, a drop at index 0
\* gets order 0 again: the order of that first task, not one below it.
C9_FrontDropOnZeroIsZero ==
    LET destinationTasks == SortedColumn(View, last.dst)
    IN  (/\ last.op = "move" /\ last.index = 0
         /\ Len(destinationTasks) > 0
         /\ View[destinationTasks[1]].order = 0)
        => /\ last.order = 0
           /\ last.order = View[destinationTasks[1]].order
           /\ ~(last.order < View[destinationTasks[1]].order)

C9_Witness ==
    /\ LastMove /\ last.fresh /\ last.index = 0 /\ CrossColumn
    /\ \E u \in ColumnTasks(tasksMap, last.dst) :
          /\ u # last.task
          /\ u \in DOMAIN View
          /\ View[u].order = 0
          /\ tasksMap[u].order = tasksMap[last.task].order

\* C10: a move computed on a stale snapshot is served like any other: a move of
\* a stored task is answered 200 and stored as computed, and no other task is
\* written.
C10_StaleMoveIsApplied ==
    [][ (last'.op = "move" /\ last'.task \in DOMAIN tasksMap)
        => /\ last'.status = 200
           /\ tasksMap'[last'.task].columnId = last'.dst
           /\ tasksMap'[last'.task].order = last'.order
           /\ \A u \in DOMAIN tasksMap \ {last'.task} :
                 tasksMap'[u] = tasksMap[u] ]_vars

\* two collaborators moved their own tasks from the same snapshot into one
\* column, and the two stored orders are equal
C10_Witness ==
    \E c, d \in Clients :
        /\ c # d
        /\ moved[c] # 0 /\ moved[d] # 0 /\ moved[c] # moved[d]
        /\ boardData[c] = boardData[d]
        /\ LastMove /\ last.client = d /\ last.task = moved[d] /\ ~last.fresh
        /\ moved[c] \in DOMAIN tasksMap
        /\ tasksMap[moved[c]].columnId = tasksMap[moved[d]].columnId
        /\ tasksMap[moved[c]].order = tasksMap[moved[d]].order
        /\ boardData[c][moved[c]].columnId # tasksMap[moved[c]].columnId

\* ---- the board page on the document store ------------------------------------
\* nothing of the board page is in flight and every snapshot has been processed
Quiescent ==
    \A c \in fsOnline :
        /\ fsWrite[c] = NoWrite
        /\ ~snapPending[c]
        /\ fsFetch[c] = NoFetch
        /\ ~fsTimer[c].armed

\* C11: once all writes have stopped and every subscribed client has processed
\* the latest snapshot, every client's tasks-by-column map holds exactly the
\* stored tasks, grouped by stored columnId and sorted by stored order.
C11_QuiescentCachesEqualStore ==
    Quiescent => \A c \in fsOnline : tasksData[c] = TasksByColumn(fsTasks)

\* the arrangement a drop shows: the moved task at the destination index of the
\* destination column, every other task where it was relative to the others
PostDropArrangement(before, after, task, dst, index) ==
    /\ Len(after[dst]) > index
    /\ after[dst][index + 1].id = task
    /\ \A col \in Columns :
          /\ Without(ShownIds(after, col), task) = Without(ShownIds(before, col), task)
          /\ col # dst => IndexOf(ShownIds(after, col), task) = -1

\* C12: a drop puts the post-drop arrangement into the local cache before the
\* remote write is applied; a failed write leaves the stored tasks unchanged
\* and invalidates the tasks query, and when the refetch resolves the cache
\* equals the stored state again.
C12_OptimisticThenRollbackByRefetch ==
    [][LET c == fsLast'.client
       IN  /\ fsLast'.op = "drag" =>
                 /\ PostDropArrangement(tasksData[c], tasksData'[c], fsLast'.task,
                                        fsLast'.dst, fsLast'.index)
                 /\ fsTasks' = fsTasks
                 /\ fsWrite'[c] # NoWrite
           /\ (fsLast'.op = "written" /\ ~fsLast'.ok) =>
                 /\ fsTasks' = fsTasks
                 /\ fsFetch'[c] = StartedFetch
           /\ (fsDrop'[c].state = "failed" /\ fsWrite'[c] = NoWrite) =>
                 \/ fsFetch'[c] # NoFetch
                 \/ tasksData'[c] = TasksByColumn(fsTasks')]_vars

\* a failed drop whose refetch has replaced an arrangement that differed from
\* the stored one
C12_Witness ==
    /\ fsLast.op = "fetched"
    /\ fsDrop[fsLast.client].state = "failed"
    /\ \E col \in Columns :
          fsDrop[fsLast.client].shown[col] # ShownIds(TasksByColumn(fsTasks), col)
    /\ tasksData[fsLast.client] = TasksByColumn(fsTasks)

\* C13: after the write of a drop (made on a cache that showed the stored
\* tasks) has succeeded and the tasks were refetched and sorted by stored order,
\* every column shows the sequence the drop had shown optimistically.
C13_RefetchShowsOptimisticSequence ==
    (/\ fsLast.op = "fetched"
     /\ fsDrop[fsLast.client].state = "written"
     /\ fsDrop[fsLast.client].fresh) =>
        \A col \in Columns :
            ShownIds(tasksData[fsLast.client], col) = fsDrop[fsLast.client].shown[col]

\* ---- the offline queue ---------------------------------------------------------
\* a sync run has ended and the server would have answered ok to every request
SyncAnsweredOk ==
    /\ offLast.op = "sync"
    /\ \A k \in DOMAIN offLast.answers : offLast.answers[k] = "ok"

\* the keys of the operations of a store the server has applied, in the order
\* in which it applied them
ReplayedKeys(store) ==
    LET replayed == SelectSeq(srvLog, LAMBDA r : r.store = store)
    IN  [k \in 1..Len(replayed) |-> replayed[k].key]

\* C14: the operations queued in pendingTasks are applied to the server in the
\* order in which they were queued: once a sync run has ended in which the
\* server answered ok to whatever it was sent, the server has applied the queued
\* operations, none before an operation queued earlier.
C14_QueuedAreReplayedInOrder ==
    (SyncAnsweredOk /\ offLast.store = "pendingTasks") =>
        ReplayedKeys("pendingTasks") = [k \in 1..(pendingKey["pendingTasks"] - 1) |-> k]

\* C15: an operation leaves the queue when its replay was answered ok: after a
\* sync run in which the server answers ok to every operation, none of the
\* operations of that store is still queued.
C15_OkReplayIsDropped ==
    SyncAnsweredOk => pending[offLast.store] = << >>

\* C16 as stated: a move made while disconnected appends exactly one operation
\* {url, PUT, data}, issues no request, invalidates nothing and resolves; a
\* move made while connected queues nothing and rethrows a failed request.
C16_OfflineMoveQueuesOnce ==
    [][offLast'.op = "move" =>
        IF ~navigatorOnLine
        THEN /\ Len(pending'["pendingTasks"]) = Len(pending["pendingTasks"]) + 1
             /\ SubSeq(pending'["pendingTasks"], 1, Len(pending["pendingTasks"]))
                  = pending["pendingTasks"]
             /\ pending'["pendingTasks"][Len(pending'["pendingTasks"])].method = "PUT"
             /\ pending'["pendingBoards"] = pending["pendingBoards"]
             /\ netRequests' = netRequests
             /\ invalidations' = invalidations
             /\ ~offLast'.threw
        ELSE /\ pending' = pending
             /\ (srvLog' = srvLog => offLast'.threw)]_vars

\* C16 amended: the disconnected case holds when the local store accepts the
\* operation; when it does not, nothing is queued, no request is issued and
\* the call rejects.
C16_OfflineMoveQueuesOnceIfStored ==
    [][offLast'.op = "move" =>
        IF ~navigatorOnLine /\ offLast'.accepted
        THEN /\ Len(pending'["pendingTasks"]) = Len(pending["pendingTasks"]) + 1
             /\ SubSeq(pending'["pendingTasks"], 1, Len(pending["pendingTasks"]))
                  = pending["pendingTasks"]
             /\ pending'["pendingTasks"][Len(pending'["pendingTasks"])].method = "PUT"
             /\ pending'["pendingBoards"] = pending["pendingBoards"]
             /\ netRequests' = netRequests
             /\ invalidations' = invalidations
             /\ ~offLast'.threw
        ELSE IF ~navigatorOnLine
        THEN /\ pending' = pending
             /\ netRequests' = netRequests
             /\ invalidations' = invalidations
             /\ offLast'.threw
        ELSE /\ pending' = pending
             /\ netRequests' = netRequests + 1
             /\ (srvLog' = srvLog => offLast'.threw)]_vars

\* a move made while disconnected has been queued behind an earlier one
C16_Witness ==
    /\ offLast.op = "move"
    /\ ~offLast.online
    /\ offLast.accepted
    /\ ~offLast.threw
    /\ Len(pending["pendingTasks"]) = 2
    /\ netRequests = 0

\* ---- push subscriptions --------------------------------------------------------
\* the subscriptions the last notification was delivered to
Attempted == getUserPushSubscriptions(pushSubscriptionsMap, pushLast'.user)

\* C17: a notification deletes the subscriptions whose delivery failed with
\* 404 or 410 and no subscription to whose endpoint no delivery failed so;
\* every other subscription is kept as it was, and sent is true exactly when a
\* delivery succeeded.
C17_GoneEndpointsAreDeleted ==
    [][pushLast'.op = "send" =>
        /\ \A id \in Attempted :
              pushLast'.outcome[pushSubscriptionsMap[id].endpoint] = "gone" =>
                  id \notin DOMAIN pushSubscriptionsMap'
        /\ \A id \in DOMAIN pushSubscriptionsMap \ DOMAIN pushSubscriptionsMap' :
              \E a \in Attempted :
                  /\ pushSubscriptionsMap[a].endpoint
                       = pushSubscriptionsMap[id].endpoint
                  /\ pushLast'.outcome[pushSubscriptionsMap[a].endpoint] = "gone"
        /\ \A id \in DOMAIN pushSubscriptionsMap' :
              /\ id \in DOMAIN pushSubscriptionsMap
              /\ pushSubscriptionsMap'[id] = pushSubscriptionsMap[id]
        /\ pushLast'.sent <=>
              \E a \in Attempted :
                  pushLast'.outcome[pushSubscriptionsMap[a].endpoint] = "ok"]_vars

\* ---- boards, columns and tasks on the REST server ------------------------------
\* C18: after any sequence of requests every stored task belongs to a stored
\* board and to a stored column, and that column is a column of the task's
\* board.
C18_TasksAreInColumnsOfTheirBoard ==
    \A t \in DOMAIN srvTasks :
        /\ srvTasks[t].boardId \in srvBoards
        /\ srvTasks[t].columnId \in DOMAIN srvColumns
        /\ srvColumns[srvTasks[t].columnId].boardId = srvTasks[t].boardId

\* ---- the subscription to the boards of a user ----------------------------------
\* C19: once the unsubscribe function has been called the callback is not
\* invoked again.
C19_NoCallbackAfterUnsubscribe ==
    [][unsubscribed => callbacks' = callbacks]_vars

\* ---- the board component with a filter -----------------------------------------
\* C20: a drop from another column at index i of the filtered list of the
\* destination column puts the moved task, in the order-sorted column, right
\* after the shown task at index i-1 and before the shown task at index i: the
\* column then shows the list it showed with the task inserted at index i.
\* (Drops whose new order ties with another task of the column are left out.)
C20_FilteredDropLandsAtShownIndex ==
    (/\ filterLast.op = "drop"
     /\ filterLast.src # filterLast.dst
     /\ UniqueOrders(filterTasks)) =>
        filteredTasks(filterTasks, matches, filterLast.dst)
            = SpliceIn(filterLast.shown, filterLast.index, filterLast.task)

\* ---- creating tasks ---------------------------------------------------------
\* C21: a task created on the board page by a client whose query data equal the
\* store gets an order strictly greater than the order of every task already in
\* its column
C21_CreatedTaskIsLast ==
    (fsLast.op = "create" /\ fsLast.fresh) =>
        \A t \in DOMAIN fsTasks :
            (t # fsLast.task /\ fsTasks[t].columnId = fsLast.dst)
                => fsTasks[t].order < fsLast.index

\* ---- the stores behind IStorage -----------------------------------------------
\* the records of a store that belong to other boards than id
OfOtherBoards(r, id) ==
    LET otherTasks == {t \in DOMAIN r.tasks : r.tasks[t].boardId # id}
    IN  [boards |-> {<<b, r.boards[b]>> : b \in DOMAIN r.boards \ {id}},
         members |-> SelectSeq(r.members, LAMBDA m : m.boardId # id),
         columns |-> {<<c, r.columns[c]>> :
                        c \in {d \in DOMAIN r.columns : r.columns[d] # id}},
         tasks |-> {<<t, r.tasks[t]>> : t \in otherTasks},
         assignees |-> {a \in r.assignees : a.taskId \in otherTasks}]

\* C22: after deleteBoard(id) has returned true the store holds no board,
\* column, task or board-member record of board id and no task-assignee record
\* of a task that board had, and the records of the other boards are as before
C22_DeleteBoardCascades ==
    (stLast.op = "deleteBoard" /\ stLast.ok) =>
        /\ stLast.id \notin DOMAIN stBoards
        /\ \A c \in DOMAIN stColumns : stColumns[c] # stLast.id
        /\ \A t \in DOMAIN stTasks : stTasks[t].boardId # stLast.id
        /\ \A k \in 1..Len(stMembers) : stMembers[k].boardId # stLast.id
        /\ \A a \in stAssignees : a.taskId \notin stLast.tasks
        /\ OfOtherBoards(Records, stLast.id) = OfOtherBoards(stLast.before, stLast.id)

\* C27: getBoardsForUser(userId) lists exactly the boards the user owns or has a
\* board-member record for, each of them once
C27_BoardsForUserExactlyOnce ==
    \A u \in Users :
        LET listed == getBoardsForUser(stImpl, stBoards, stMembers, u)
        IN  /\ {listed[k] : k \in 1..Len(listed)} =
                  {b \in DOMAIN stBoards :
                     \/ stBoards[b] = u
                     \/ \E k \in 1..Len(stMembers) :
                           stMembers[k].boardId = b /\ stMembers[k].userId = u}
            /\ \A i, j \in 1..Len(listed) : listed[i] = listed[j] => i = j

\* ---- drops that move nothing ------------------------------------------------
\* C23: a drag that ends without a destination, or at the droppable and index
\* it started from, issues no write and changes neither the query data nor a
\* stored task, on the board page and in the board component
C23_DroppedBackChangesNothing ==
    [][/\ fsLast'.op = "dropped back" =>
             UNCHANGED <<fsTasks, tasksData, fsWrite, fsFetch, fsTimer, snapPending>>
       /\ filterLast'.op = "dropped back" => UNCHANGED filterTasks]_vars

\* a task of the board page was dropped back while a write was in flight
C23_Witness ==
    /\ fsLast.op = "dropped back"
    /\ fsTasks # << >>
    /\ \E c \in fsOnline : fsWrite[c] # NoWrite

\* ---- the column and task routes for the boards of several users ---------------
\* the tasks that are part of board b: those of the board and those in one of
\* its columns
PartOfBoard(tasks, columns, b) ==
    {<<t, tasks[t]>> : t \in {x \in DOMAIN tasks :
        \/ tasks[x].boardId = b
        \/ (tasks[x].columnId \in DOMAIN columns /\ columns[tasks[x].columnId] = b)}}

\* C24: a request of a user leaves the columns and the tasks of every board the
\* user is neither owner nor member of as they were, and makes no task part
\* of such a board
C24_OnlyMembersTouchABoard ==
    [][\A b \in DOMAIN azBoards :
          ~isBoardMemberOfStored(azBoards, b, azLast'.user) =>
              /\ {c \in DOMAIN azColumns : azColumns[c] = b}
                    = {c \in DOMAIN azColumns' : azColumns'[c] = b}
              /\ PartOfBoard(azTasks, azColumns, b)
                    = PartOfBoard(azTasks', azColumns, b)]_vars

\* ---- the board, member and assignee routes --------------------------------------
\* C25: the owner of every board has a board-member record of the board
C25_OwnerIsMember ==
    \A b \in DOMAIN tmBoards : Member(b, tmBoards[b]) \in tmMembers

\* C26: while every owner has the board-member record of its board, every
\* task-assignee record names a user who has a board-member record of the
\* board of the task
C26_AssigneesAreMembers ==
    (\A b \in DOMAIN tmBoards : Member(b, tmBoards[b]) \in tmMembers) =>
        \A a \in tmAssignees :
            /\ a.taskId \in DOMAIN tmTasks
            /\ Member(tmTasks[a.taskId], a.userId) \in tmMembers

\* ---- the subscription to the boards of a user ----------------------------------
\* C28: when both listeners have handled their latest snapshot and no board
\* fetch is in flight, the list passed to callback last holds exactly the
\* boards the user created or has a membership for, each of them once
C28_BoardsListConverges ==
    (/\ ~unsubscribed
     /\ ~memPending
     /\ ~ownPending
     /\ handlers = << >>
     /\ callbacks > 0) =>
        /\ {delivered[k] : k \in 1..Len(delivered)} =
              {b \in DOMAIN fbBoards : fbBoards[b] = ownerId \/ b \in fbMemberships}
        /\ \A i, j \in 1..Len(delivered) : delivered[i] = delivered[j] => i = j

\* ---- assignTaskToUser and unassignTaskFromUser ----------------------------------
\* C29: when every call made so far was an assignTaskToUser and all of them
\* have completed, assignedTo holds every user a call assigned, each once
C29_ConcurrentAssignsAllKept ==
    (\A k \in DOMAIN calls : calls[k].op = "assign" /\ calls[k].pc = "done") =>
        /\ \A k \in DOMAIN calls : Includes(assignedTo, calls[k].userId)
        /\ \A i, j \in 1..Len(assignedTo) : assignedTo[i] = assignedTo[j] => i = j

\* ---- the useOffline hook ----------------------------------------------------------
\* C30: offlineMode is 'unavailable' while IndexedDB is missing or the database
\* failed to open; once the database is open offlineMode is 'ready' exactly
\* when isOffline is true and 'syncing' exactly when it is false
C30_OfflineModeConsistent ==
    /\ (~indexedDBSupported \/ openRequest = "error") => offlineMode = "unavailable"
    /\ (indexedDBSupported /\ openRequest = "success") =>
          /\ (offlineMode = "ready") = isOffline
          /\ (offlineMode = "syncing") = ~isOffline

====
